---- MODULE Spec2Model ----
(***************************************************************************)
(* Model of the automatic data-quality checker:                            *)
(*   automatic_dq_rules.py      generate_rules_for_table (rule synthesis)  *)
(*   run_automatic_dq_checks.py discovery, rule generation, SQL            *)
(*                              compilation, execution and main            *)
(* Python strings are TLA+ strings (Len, SubSeq and \o work on them in     *)
(* TLC), dicts are functions over the keys they hold, lists are sequences. *)
(***************************************************************************)
EXTENDS Integers, Sequences, FiniteSets, TLC

(* ---------------------------------------------------------------------- *)
(* Python values and string methods                                       *)
(* ---------------------------------------------------------------------- *)

\* Python's None. No identifier or SQL text of the model is this string.
None == "<None>"

\* Python's {} (a dict with no keys).
EmptyDict == <<>>

\* d.get(k): the value under k, None when the key is absent.
DictGet(d, k) == IF k \in DOMAIN d THEN d[k] ELSE None

\* {**d, k: v}
DictWith(d, k, v) == [x \in (DOMAIN d) \cup {k} |-> IF x = k THEN v ELSE d[x]]

\* str(x) inside an f-string, for a value that is a string or None.
Fmt(x) == IF x = None THEN "None" ELSE x

\* Truthiness of a value that is a string or None.
Truthy(x) == x # None /\ x # ""

UpperChar(c) ==
  CASE c = "a" -> "A" [] c = "b" -> "B" [] c = "c" -> "C" [] c = "d" -> "D"
    [] c = "e" -> "E" [] c = "f" -> "F" [] c = "g" -> "G" [] c = "h" -> "H"
    [] c = "i" -> "I" [] c = "j" -> "J" [] c = "k" -> "K" [] c = "l" -> "L"
    [] c = "m" -> "M" [] c = "n" -> "N" [] c = "o" -> "O" [] c = "p" -> "P"
    [] c = "q" -> "Q" [] c = "r" -> "R" [] c = "s" -> "S" [] c = "t" -> "T"
    [] c = "u" -> "U" [] c = "v" -> "V" [] c = "w" -> "W" [] c = "x" -> "X"
    [] c = "y" -> "Y" [] c = "z" -> "Z" [] OTHER -> c

RECURSIVE Upper(_)
\* s.upper()
Upper(s) ==
  IF s = "" THEN ""
  ELSE UpperChar(SubSeq(s, 1, 1)) \o Upper(SubSeq(s, 2, Len(s)))

LowerChar(c) ==
  CASE c = "A" -> "a" [] c = "B" -> "b" [] c = "C" -> "c" [] c = "D" -> "d"
    [] c = "E" -> "e" [] c = "F" -> "f" [] c = "G" -> "g" [] c = "H" -> "h"
    [] c = "I" -> "i" [] c = "J" -> "j" [] c = "K" -> "k" [] c = "L" -> "l"
    [] c = "M" -> "m" [] c = "N" -> "n" [] c = "O" -> "o" [] c = "P" -> "p"
    [] c = "Q" -> "q" [] c = "R" -> "r" [] c = "S" -> "s" [] c = "T" -> "t"
    [] c = "U" -> "u" [] c = "V" -> "v" [] c = "W" -> "w" [] c = "X" -> "x"
    [] c = "Y" -> "y" [] c = "Z" -> "z" [] OTHER -> c

RECURSIVE Lower(_)
\* s.lower()
Lower(s) ==
  IF s = "" THEN ""
  ELSE LowerChar(SubSeq(s, 1, 1)) \o Lower(SubSeq(s, 2, Len(s)))

\* k in s (substring test)
Contains(s, k) ==
  \E i \in 1..(Len(s) - Len(k) + 1) : SubSeq(s, i, i + Len(k) - 1) = k

\* s.endswith(k)
EndsWith(s, k) ==
  Len(s) >= Len(k) /\ SubSeq(s, Len(s) - Len(k) + 1, Len(s)) = k

\* any(k in s for k in keywords)
AnyIn(keywords, s) == \E k \in keywords : Contains(s, k)

RECURSIVE SplitFrom(_, _, _)
\* The parts of s from position i on, cur being the part read so far.
SplitFrom(s, i, cur) ==
  IF i > Len(s) THEN <<cur>>
  ELSE IF SubSeq(s, i, i) = "." THEN <<cur>> \o SplitFrom(s, i + 1, "")
  ELSE SplitFrom(s, i + 1, cur \o SubSeq(s, i, i))

\* s.split('.')
SplitDots(s) == SplitFrom(s, 1, "")

RECURSIVE JoinAnd(_)
\* " AND ".join(parts)
JoinAnd(parts) ==
  IF parts = <<>> THEN ""
  ELSE IF Len(parts) = 1 THEN parts[1]
  ELSE parts[1] \o " AND " \o JoinAnd(Tail(parts))

\* f'"{x}"'
Quoted(x) == "\"" \o Fmt(x) \o "\""

(* ---------------------------------------------------------------------- *)
(* automatic_dq_rules.py: generate_rules_for_table                         *)
(* ---------------------------------------------------------------------- *)

is_numeric_type(col_type) ==
  Contains(Upper(col_type), "NUMBER") \/ Contains(Upper(col_type), "FLOAT")

is_boolean_like_type(col_type) ==
  Contains(Upper(col_type), "BOOLEAN") \/ Upper(col_type) = "NUMBER(1,0)"

is_variant_type(col_type) == Contains(Upper(col_type), "VARIANT")

\* Base config for every test.
base_test_config(primary_date_column, check_yesterday_only) ==
  [date_window_col |-> primary_date_column,
   check_yesterday_only |-> check_yesterday_only]

description_prefix_base(primary_date_column, check_yesterday_only) ==
  IF check_yesterday_only /\ Truthy(primary_date_column)
    THEN "Auto-generated (on " \o Fmt(primary_date_column) \o " for yesterday only)"
  ELSE IF Truthy(primary_date_column)
    THEN "Auto-generated (on " \o Fmt(primary_date_column) \o " for recent data)"
  ELSE "Auto-generated"

\* A test dict without an 'sql' fragment (not_null, unique).
PlainTest(type, col_name, cfg, description) ==
  [type |-> type, column_name |-> col_name, description |-> description,
   config |-> cfg]

\* A custom_sql test dict: config is {**cfg, 'sql': sql}.
CustomTest(col_name, cfg, sql, description) ==
  [type |-> "custom_sql", column_name |-> col_name, description |-> description,
   config |-> DictWith(cfg, "sql", sql)]

PrimaryKeyNames == {"ID", "USER_ID", "DATE_ID", "CAMPAIGN_ID"}

\* Rule 1 with the foreign-key branch an independent 'if' instead of 'elif'.
Rule1IdChecksNoElif(col_name, col_type, table_name, cfg, prefix) ==
  (IF Upper(col_name) \in PrimaryKeyNames
     THEN << PlainTest("not_null", col_name, cfg,
                prefix \o ": Primary key '" \o col_name \o "' should not be NULL."),
             PlainTest("unique", col_name, cfg,
                prefix \o ": Primary key '" \o col_name \o "' should be unique.") >>
     ELSE << >>)
  \o
  (IF EndsWith(Upper(col_name), "_ID") \/ Upper(col_name) \in {"UTM_KEY"}
     THEN << PlainTest("not_null", col_name, cfg,
                prefix \o ": Foreign key '" \o col_name \o "' should not be NULL.") >>
     ELSE << >>)

\* Rule 1: primary keys are not null and unique, foreign keys not null.
Rule1IdChecks(col_name, col_type, table_name, cfg, prefix) ==
  IF Upper(col_name) \in PrimaryKeyNames
    THEN << PlainTest("not_null", col_name, cfg,
               prefix \o ": Primary key '" \o col_name \o "' should not be NULL."),
            PlainTest("unique", col_name, cfg,
               prefix \o ": Primary key '" \o col_name \o "' should be unique.") >>
  ELSE IF EndsWith(Upper(col_name), "_ID") \/ Upper(col_name) \in {"UTM_KEY"}
    THEN << PlainTest("not_null", col_name, cfg,
               prefix \o ": Foreign key '" \o col_name \o "' should not be NULL.") >>
  ELSE << >>

timestamp_columns ==
  {"CREATEDAT", "UPDATEDAT", "DATE", "INSTALL_DATE", "FIRST_ACTIVE",
   "LAST_ACTIVE", "SUB_START_DATE", "FIRST_IMPRESSION_DATE",
   "LAST_IMPRESSION_DATE", "FIRST_BUFF_PLAY_ACTIVITY"}

\* Rule 2 without the DIM_DATES exception.
Rule2TimestampsEverywhere(col_name, col_type, table_name, cfg, prefix) ==
  IF Upper(col_name) \in timestamp_columns
    THEN << PlainTest("not_null", col_name, cfg,
               prefix \o ": Timestamp column '" \o col_name \o "' should not be NULL."),
            CustomTest(col_name, cfg,
               Quoted(col_name) \o " > CURRENT_DATE() AND "
                 \o Quoted(col_name) \o " IS NOT NULL",
               prefix \o ": Timestamp '" \o col_name
                 \o "' should not be in the future.") >>
    ELSE << >>

\* Rule 2: timestamp columns are not null and, except in DIM_DATES, not in
\* the future.
Rule2Timestamps(col_name, col_type, table_name, cfg, prefix) ==
  IF Upper(col_name) \in timestamp_columns
    THEN << PlainTest("not_null", col_name, cfg,
               prefix \o ": Timestamp column '" \o col_name \o "' should not be NULL.") >>
         \o
         (IF ~Contains(Upper(table_name), "DIM_DATES")
            THEN << CustomTest(col_name, cfg,
                       Quoted(col_name) \o " > CURRENT_DATE() AND "
                         \o Quoted(col_name) \o " IS NOT NULL",
                       prefix \o ": Timestamp '" \o col_name
                         \o "' should not be in the future.") >>
            ELSE << >>)
    ELSE << >>

\* Rule 3: email not null and of a valid format.
Rule3Email(col_name, col_type, table_name, cfg, prefix) ==
  IF Upper(col_name) = "EMAIL"
    THEN << PlainTest("not_null", col_name, cfg,
               prefix \o ": Email column '" \o col_name \o "' should not be NULL."),
            CustomTest(col_name, cfg,
               "NOT (REGEXP_LIKE(" \o Quoted(col_name)
                 \o ", '[A-Za-z0-9._%+-]+@[A-Za-z0-9.-]+\\.[A-Za-z]{2,}') OR "
                 \o Quoted(col_name) \o " IS NULL)",
               prefix \o ": Email column '" \o col_name
                 \o "' should have a valid format.") >>
    ELSE << >>

\* Rule 4: country codes of 2-3 characters and not blank.
Rule4Country(col_name, col_type, table_name, cfg, prefix) ==
  IF Upper(col_name) \in {"COUNTRY", "COUNTRY_CODE"}
    THEN << CustomTest(col_name, cfg,
               "(LEN(" \o Quoted(col_name) \o ") < 2 OR LEN(" \o Quoted(col_name)
                 \o ") > 3) AND " \o Quoted(col_name) \o " IS NOT NULL AND "
                 \o Quoted(col_name) \o " != ''",
               prefix \o ": Country code '" \o col_name
                 \o "' should be 2-3 characters."),
            CustomTest(col_name, cfg,
               "TRIM(" \o Quoted(col_name) \o ") = '' AND " \o Quoted(col_name)
                 \o " IS NOT NULL",
               prefix \o ": Country code '" \o col_name
                 \o "' should not be empty or whitespace.") >>
    ELSE << >>

financial_keywords ==
  {"BALANCE", "BONUSBALANCE", "SPEND", "REVENUE", "LTV", "DAILY_SPEND_USD",
   "DAILY_SPEND_ILS", "DAILY_SPEND_ARS", "POINTS"}

\* Rule 5: financial metrics are non-negative.
Rule5Financial(col_name, col_type, table_name, cfg, prefix) ==
  IF /\ is_numeric_type(col_type)
     /\ AnyIn(financial_keywords, Upper(col_name))
     /\ ~Contains(Upper(col_name), "REFUND")
     /\ ~Contains(Upper(col_name), "ADJUSTMENT")
    THEN << CustomTest(col_name, cfg,
               Quoted(col_name) \o " < 0 AND " \o Quoted(col_name) \o " IS NOT NULL",
               prefix \o ": Financial column '" \o col_name
                 \o "' should be non-negative.") >>
    ELSE << >>

campaign_keywords == {"IMPRESSIONS", "CLICKS", "INSTALLS", "CAMPAIGN_DURATION"}

\* Rule 6: campaign metrics are non-negative, durations at most 730 days.
Rule6Campaign(col_name, col_type, table_name, cfg, prefix) ==
  IF is_numeric_type(col_type) /\ AnyIn(campaign_keywords, Upper(col_name))
    THEN << CustomTest(col_name, cfg,
               Quoted(col_name) \o " < 0 AND " \o Quoted(col_name) \o " IS NOT NULL",
               prefix \o ": Campaign metric '" \o col_name
                 \o "' should be non-negative.") >>
         \o
         (IF Upper(col_name) = "CAMPAIGN_DURATION"
            THEN << CustomTest(col_name, cfg,
                       Quoted(col_name) \o " > 730 AND " \o Quoted(col_name)
                         \o " IS NOT NULL",
                       prefix \o ": Campaign duration '" \o col_name
                         \o "' exceeds reasonable limit (730 days).") >>
            ELSE << >>)
    ELSE << >>

boolean_indicators ==
  {"IS_SUB_IND", "IS_ACTIVE_SUB_IND", "ISCONFIRMEDEMAIL", "ISFROZEN",
   "ISCLOSED", "IS_REWARDED", "IS_PREMIUM", "CURRENT_YEAR_IND",
   "CURRENT_MONTH_IND", "REGISTRATION_APP"}

\* Rule 7: boolean indicators hold boolean values.
Rule7Boolean(col_name, col_type, table_name, cfg, prefix) ==
  IF \/ Upper(col_name) \in boolean_indicators
     \/ (is_boolean_like_type(col_type) /\ AnyIn({"IS_", "_IND"}, Upper(col_name)))
    THEN << CustomTest(col_name, cfg,
               IF Contains(Upper(col_type), "BOOLEAN")
                 THEN Quoted(col_name) \o " NOT IN (TRUE, FALSE) AND "
                        \o Quoted(col_name) \o " IS NOT NULL"
                 ELSE Quoted(col_name) \o " NOT IN (0, 1) AND "
                        \o Quoted(col_name) \o " IS NOT NULL",
               prefix \o ": Boolean indicator '" \o col_name
                 \o "' should have valid boolean values.") >>
    ELSE << >>

\* The range condition of a dimensional ordinal.
RangeSql(col_name, lo, hi) ==
  "(" \o Quoted(col_name) \o " < " \o lo \o " OR " \o Quoted(col_name) \o " > "
    \o hi \o ") AND " \o Quoted(col_name) \o " IS NOT NULL"

\* Rule 8: dimensional ordinals are in range; now_year is datetime.now().year.
Rule8Dimensional(col_name, col_type, table_name, cfg, prefix, now_year) ==
  IF ~is_numeric_type(col_type) THEN << >>
  ELSE IF Upper(col_name) = "MONTH_ID"
    THEN << CustomTest(col_name, cfg, RangeSql(col_name, "1", "12"),
               prefix \o ": MONTH_ID should be between 1 and 12.") >>
  ELSE IF Upper(col_name) = "QUARTER_ID"
    THEN << CustomTest(col_name, cfg, RangeSql(col_name, "1", "4"),
               prefix \o ": QUARTER_ID should be between 1 and 4.") >>
  ELSE IF Upper(col_name) = "WEEK_NUMBER"
    THEN << CustomTest(col_name, cfg, RangeSql(col_name, "1", "53"),
               prefix \o ": WEEK_NUMBER should be between 1 and 53.") >>
  ELSE IF Upper(col_name) = "YEAR"
    THEN << CustomTest(col_name, cfg,
               RangeSql(col_name, "2015", ToString(now_year + 10)),
               prefix \o ": YEAR should be within business-relevant range (2015-"
                 \o ToString(now_year + 10) \o ").") >>
  ELSE << >>

\* The blank-string condition shared by rules 9, 10 and 11.
BlankSql(col_name) ==
  "(TRIM(" \o Quoted(col_name) \o ") = '' OR " \o Quoted(col_name)
    \o " = ' ') AND " \o Quoted(col_name) \o " IS NOT NULL"

\* Rule 9: UTM_KEY is not blank and at most 200 characters.
Rule9UtmKey(col_name, col_type, table_name, cfg, prefix) ==
  IF Upper(col_name) = "UTM_KEY"
    THEN << CustomTest(col_name, cfg, BlankSql(col_name),
               prefix \o ": UTM_KEY should not be empty or whitespace."),
            CustomTest(col_name, cfg,
               "LEN(" \o Quoted(col_name) \o ") > 200 AND " \o Quoted(col_name)
                 \o " IS NOT NULL",
               prefix \o ": UTM_KEY length exceeds reasonable limit (200 chars).") >>
    ELSE << >>

marketing_fields == {"SOURCE", "MEDIUM", "CAMPAIGN", "MARKETING_SOURCE", "DATA_SOURCE"}

\* Rule 10: marketing fields are not blank.
Rule10Marketing(col_name, col_type, table_name, cfg, prefix) ==
  IF Upper(col_name) \in marketing_fields
    THEN << CustomTest(col_name, cfg, BlankSql(col_name),
               prefix \o ": Marketing field '" \o col_name
                 \o "' should not be empty or whitespace.") >>
    ELSE << >>

\* Rule 11: classification fields are not blank.
Rule11UserType(col_name, col_type, table_name, cfg, prefix) ==
  IF Upper(col_name) \in {"USER_TYPE", "ROLE", "AUTHTYPE", "PREM_TYPE"}
    THEN << CustomTest(col_name, cfg, BlankSql(col_name),
               prefix \o ": Classification field '" \o col_name
                 \o "' should not be empty or whitespace.") >>
    ELSE << >>

game_fields == {"FIRST_GAME", "LAST_GAME", "MAIN_GAME"}

\* Rule 12: game ids are positive.
Rule12GameId(col_name, col_type, table_name, cfg, prefix) ==
  IF Upper(col_name) \in game_fields /\ is_numeric_type(col_type)
    THEN << CustomTest(col_name, cfg,
               Quoted(col_name) \o " <= 0 AND " \o Quoted(col_name) \o " IS NOT NULL",
               prefix \o ": Game ID '" \o col_name \o "' should be positive.") >>
    ELSE << >>

\* Rule 13: the subscription count is between 0 and 10.
Rule13Subscriptions(col_name, col_type, table_name, cfg, prefix) ==
  IF Upper(col_name) = "NUMBER_OF_ACTIVE_SUBSCRIPTIONS" /\ is_numeric_type(col_type)
    THEN << CustomTest(col_name, cfg,
               Quoted(col_name) \o " < 0 AND " \o Quoted(col_name) \o " IS NOT NULL",
               prefix \o ": NUMBER_OF_ACTIVE_SUBSCRIPTIONS should not be negative."),
            CustomTest(col_name, cfg,
               Quoted(col_name) \o " > 10 AND " \o Quoted(col_name) \o " IS NOT NULL",
               prefix
                 \o ": NUMBER_OF_ACTIVE_SUBSCRIPTIONS exceeds reasonable limit (10).") >>
    ELSE << >>

\* Rule 14: currency codes have 3 characters.
Rule14Currency(col_name, col_type, table_name, cfg, prefix) ==
  IF Upper(col_name) = "CURRENCY"
    THEN << CustomTest(col_name, cfg,
               "LEN(" \o Quoted(col_name) \o ") != 3 AND " \o Quoted(col_name)
                 \o " IS NOT NULL",
               prefix \o ": Currency code should be 3 characters.") >>
    ELSE << >>

\* Rule 15: VARIANT fields hold valid JSON.
Rule15Variant(col_name, col_type, table_name, cfg, prefix) ==
  IF is_variant_type(col_type)
    THEN << CustomTest(col_name, cfg,
               "TRY_PARSE_JSON(" \o Quoted(col_name) \o ") IS NULL AND "
                 \o Quoted(col_name) \o " IS NOT NULL AND " \o Quoted(col_name)
                 \o " != 'null'",
               prefix \o ": VARIANT field '" \o col_name
                 \o "' should contain valid JSON.") >>
    ELSE << >>

\* The body of the per-column loop for one column: rules 1 to 15 in order.
ColumnRules(col, table_name, cfg, prefix, now_year) ==
  LET n == col.name
      t == col.type
  IN Rule1IdChecks(n, t, table_name, cfg, prefix)
     \o Rule2Timestamps(n, t, table_name, cfg, prefix)
     \o Rule3Email(n, t, table_name, cfg, prefix)
     \o Rule4Country(n, t, table_name, cfg, prefix)
     \o Rule5Financial(n, t, table_name, cfg, prefix)
     \o Rule6Campaign(n, t, table_name, cfg, prefix)
     \o Rule7Boolean(n, t, table_name, cfg, prefix)
     \o Rule8Dimensional(n, t, table_name, cfg, prefix, now_year)
     \o Rule9UtmKey(n, t, table_name, cfg, prefix)
     \o Rule10Marketing(n, t, table_name, cfg, prefix)
     \o Rule11UserType(n, t, table_name, cfg, prefix)
     \o Rule12GameId(n, t, table_name, cfg, prefix)
     \o Rule13Subscriptions(n, t, table_name, cfg, prefix)
     \o Rule14Currency(n, t, table_name, cfg, prefix)
     \o Rule15Variant(n, t, table_name, cfg, prefix)

RECURSIVE PerColumnPass(_, _, _, _, _)
\* for col in columns: ... (columns in table order)
PerColumnPass(columns, table_name, cfg, prefix, now_year) ==
  IF columns = << >> THEN << >>
  ELSE ColumnRules(Head(columns), table_name, cfg, prefix, now_year)
       \o PerColumnPass(Tail(columns), table_name, cfg, prefix, now_year)

RECURSIVE ColIndexGet(_, _)
\* col_index[key] of col_index = {c["name"].upper(): c["name"] for c in columns}:
\* the name of the last column whose uppercased name is key, None without one.
ColIndexGet(columns, key) ==
  IF columns = << >> THEN None
  ELSE IF Upper(columns[Len(columns)].name) = key THEN columns[Len(columns)].name
  ELSE ColIndexGet(SubSeq(columns, 1, Len(columns) - 1), key)

\* {keys}.issubset(col_index)
InColIndex(columns, keys) == \A k \in keys : ColIndexGet(columns, k) # None

\* Cross-column rule 1: DATE_ID equals the YYYYMMDD form of DATE.
CrossDateId(columns, cfg, prefix) ==
  IF InColIndex(columns, {"DATE_ID", "DATE"})
    THEN LET d == Quoted(ColIndexGet(columns, "DATE"))
             i == Quoted(ColIndexGet(columns, "DATE_ID"))
         IN << CustomTest(ColIndexGet(columns, "DATE_ID"), cfg,
                  "TO_NUMBER(TO_CHAR(" \o d \o ", 'YYYYMMDD')) <> " \o i \o " AND "
                    \o d \o " IS NOT NULL AND " \o i \o " IS NOT NULL",
                  prefix \o ": DATE_ID must equal YYYYMMDD representation of DATE.") >>
    ELSE << >>

\* The ordering condition with >= in place of >.
OrderSqlGe(a, b) ==
  Quoted(a) \o " >= " \o Quoted(b) \o " AND " \o Quoted(a) \o " IS NOT NULL AND "
    \o Quoted(b) \o " IS NOT NULL"

\* The ordering condition 'a > b and both set' of cross-column rules 2, 3, 5.
OrderSql(a, b) ==
  Quoted(a) \o " > " \o Quoted(b) \o " AND " \o Quoted(a) \o " IS NOT NULL AND "
    \o Quoted(b) \o " IS NOT NULL"

\* Cross-column rule 2: createdAt is not after updatedAt. (The description's
\* less-or-equal sign is written <= here.)
CrossCreatedUpdated(columns, cfg, prefix) ==
  IF InColIndex(columns, {"CREATEDAT", "UPDATEDAT"})
    THEN << CustomTest(ColIndexGet(columns, "CREATEDAT"), cfg,
               OrderSql(ColIndexGet(columns, "CREATEDAT"),
                        ColIndexGet(columns, "UPDATEDAT")),
               prefix \o ": createdAt must be <= updatedAt.") >>
    ELSE << >>

\* Cross-column rule 3: FIRST_IMPRESSION_DATE is not after LAST_IMPRESSION_DATE.
CrossImpressionOrder(columns, cfg, prefix) ==
  IF InColIndex(columns, {"FIRST_IMPRESSION_DATE", "LAST_IMPRESSION_DATE"})
    THEN << CustomTest(ColIndexGet(columns, "FIRST_IMPRESSION_DATE"), cfg,
               OrderSql(ColIndexGet(columns, "FIRST_IMPRESSION_DATE"),
                        ColIndexGet(columns, "LAST_IMPRESSION_DATE")),
               prefix
                 \o ": FIRST_IMPRESSION_DATE must not be after LAST_IMPRESSION_DATE.") >>
    ELSE << >>

\* Cross-column rule 4: DATE lies between the two impression dates.
CrossDateInRange(columns, cfg, prefix) ==
  IF InColIndex(columns, {"DATE", "FIRST_IMPRESSION_DATE", "LAST_IMPRESSION_DATE"})
    THEN LET d == Quoted(ColIndexGet(columns, "DATE"))
         IN << CustomTest(ColIndexGet(columns, "DATE"), cfg,
                  "(" \o d \o " < " \o Quoted(ColIndexGet(columns, "FIRST_IMPRESSION_DATE"))
                    \o " OR " \o d \o " > "
                    \o Quoted(ColIndexGet(columns, "LAST_IMPRESSION_DATE"))
                    \o ") AND " \o d \o " IS NOT NULL",
                  prefix
                    \o ": DATE must be between FIRST_IMPRESSION_DATE and LAST_IMPRESSION_DATE.") >>
    ELSE << >>

\* Cross-column rule 5: CLICKS never exceed IMPRESSIONS.
CrossClicks(columns, cfg, prefix) ==
  IF InColIndex(columns, {"CLICKS", "IMPRESSIONS"})
    THEN << CustomTest(ColIndexGet(columns, "CLICKS"), cfg,
               OrderSql(ColIndexGet(columns, "CLICKS"),
                        ColIndexGet(columns, "IMPRESSIONS")),
               prefix \o ": CLICKS cannot exceed IMPRESSIONS.") >>
    ELSE << >>

\* any(col['name'].upper() == key for col in columns)
HasColumn(columns, key) == \E i \in 1..Len(columns) : Upper(columns[i].name) = key

\* Rule 16: business rules gated on the table name (ACCOUNTS, else DIM_USERS).
Rule16TableGated(table_name, columns, cfg, prefix) ==
  IF Contains(Upper(table_name), "ACCOUNTS")
    THEN IF HasColumn(columns, "ISCONFIRMEDEMAIL") /\ HasColumn(columns, "EMAIL")
           THEN << CustomTest("isConfirmedEmail,email", cfg,
                      "ISCONFIRMEDEMAIL = TRUE AND EMAIL IS NULL",
                      prefix
                        \o ": If email is confirmed, email field should not be null.") >>
           ELSE << >>
  ELSE IF Contains(Upper(table_name), "DIM_USERS")
    THEN IF /\ HasColumn(columns, "IS_ACTIVE_SUB_IND")
            /\ HasColumn(columns, "NUMBER_OF_ACTIVE_SUBSCRIPTIONS")
           THEN << CustomTest("IS_ACTIVE_SUB_IND,NUMBER_OF_ACTIVE_SUBSCRIPTIONS", cfg,
                      "IS_ACTIVE_SUB_IND = 1 AND (NUMBER_OF_ACTIVE_SUBSCRIPTIONS IS NULL OR NUMBER_OF_ACTIVE_SUBSCRIPTIONS = 0)",
                      prefix
                        \o ": Active subscription indicator should match subscription count.") >>
           ELSE << >>
  ELSE << >>

\* generate_rules_for_table with the cross-column rules run before the
\* per-column loop.
generate_rules_cross_first(table_name, columns, primary_date_column, check_yesterday_only, now_year) ==
  LET cfg == base_test_config(primary_date_column, check_yesterday_only)
      prefix == description_prefix_base(primary_date_column, check_yesterday_only)
  IN [name |-> table_name,
      tests |-> CrossDateId(columns, cfg, prefix)
                \o CrossCreatedUpdated(columns, cfg, prefix)
                \o CrossImpressionOrder(columns, cfg, prefix)
                \o CrossDateInRange(columns, cfg, prefix)
                \o CrossClicks(columns, cfg, prefix)
                \o PerColumnPass(columns, table_name, cfg, prefix, now_year)
                \o Rule16TableGated(table_name, columns, cfg, prefix)]

\* generate_rules_for_table(table_name, columns, primary_date_column,
\* check_yesterday_only), called when datetime.now().year is now_year: the
\* model dict {'name': table_name, 'tests': tests}.
generate_rules_for_table(table_name, columns, primary_date_column, check_yesterday_only, now_year) ==
  LET cfg == base_test_config(primary_date_column, check_yesterday_only)
      prefix == description_prefix_base(primary_date_column, check_yesterday_only)
  IN [name |-> table_name,
      tests |-> PerColumnPass(columns, table_name, cfg, prefix, now_year)
                \o CrossDateId(columns, cfg, prefix)
                \o CrossCreatedUpdated(columns, cfg, prefix)
                \o CrossImpressionOrder(columns, cfg, prefix)
                \o CrossDateInRange(columns, cfg, prefix)
                \o CrossClicks(columns, cfg, prefix)
                \o Rule16TableGated(table_name, columns, cfg, prefix)]

(* ---------------------------------------------------------------------- *)
(* run_automatic_dq_checks.py: generate_test_sql                           *)
(* ---------------------------------------------------------------------- *)

\* base_condition_content with no condition on NULL for unique.
BaseConditionUniqueAnyValue(test_type, column_name, config) ==
  LET quoted_column_name == IF column_name # "N/A" THEN Quoted(column_name) ELSE None
  IN IF test_type = "not_null" THEN Fmt(quoted_column_name) \o " IS NULL"
     ELSE IF test_type = "unique"
       THEN Fmt(quoted_column_name) \o " IS NOT NULL OR " \o Fmt(quoted_column_name)
              \o " IS NULL"
     ELSE IF test_type = "custom_sql"
       THEN IF Truthy(DictGet(config, "sql")) THEN config["sql"] ELSE None
     ELSE None

\* base_condition_content with the not_null condition inverted.
BaseConditionNotNullInverted(test_type, column_name, config) ==
  LET quoted_column_name == IF column_name # "N/A" THEN Quoted(column_name) ELSE None
  IN IF test_type = "not_null" THEN Fmt(quoted_column_name) \o " IS NOT NULL"
     ELSE IF test_type = "unique" THEN Fmt(quoted_column_name) \o " IS NOT NULL"
     ELSE IF test_type = "custom_sql"
       THEN IF Truthy(DictGet(config, "sql")) THEN config["sql"] ELSE None
     ELSE None

\* The core condition of a test type; None when generate_test_sql returns
\* None for it (custom_sql without an 'sql' fragment, unknown type).
base_condition_content(test_type, column_name, config) ==
  LET quoted_column_name == IF column_name # "N/A" THEN Quoted(column_name) ELSE None
  IN IF test_type = "not_null" THEN Fmt(quoted_column_name) \o " IS NULL"
     ELSE IF test_type = "unique" THEN Fmt(quoted_column_name) \o " IS NOT NULL"
     ELSE IF test_type = "custom_sql"
       THEN IF Truthy(DictGet(config, "sql")) THEN config["sql"] ELSE None
     ELSE None

\* Lines 274-290 without the check_yesterday_only branch.
TimeWindowIgnoringFlag(config) ==
  LET date_window_col == DictGet(config, "date_window_col")
  IN IF ~Truthy(date_window_col) THEN ""
     ELSE IF "time_window_days" \in DOMAIN config /\ config["time_window_days"] > 0
       THEN Quoted(date_window_col) \o " >= CURRENT_DATE - INTERVAL '"
              \o ToString(config["time_window_days"]) \o " DAY'"
     ELSE ""

\* The window predicate of a config, "" when no window applies.
time_window_filter_content(config) ==
  LET date_window_col == DictGet(config, "date_window_col")
      check_yesterday_only == IF "check_yesterday_only" \in DOMAIN config
                                THEN config["check_yesterday_only"] ELSE FALSE
  IN IF ~Truthy(date_window_col) THEN ""
     ELSE IF check_yesterday_only
       THEN Quoted(date_window_col) \o " >= CURRENT_DATE - INTERVAL '1 DAY' AND "
              \o Quoted(date_window_col) \o " < CURRENT_DATE"
     ELSE IF "time_window_days" \in DOMAIN config /\ config["time_window_days"] > 0
       THEN Quoted(date_window_col) \o " >= CURRENT_DATE - INTERVAL '"
              \o ToString(config["time_window_days"]) \o " DAY'"
     ELSE ""

\* final_where_clause joining the conditions without parentheses.
FinalWhereClauseBare(base, window) ==
  LET all_where_conditions ==
        (IF base # "" THEN << base >> ELSE << >>)
        \o (IF window # "" THEN << window >> ELSE << >>)
  IN IF all_where_conditions # << >>
       THEN " WHERE " \o JoinAnd(all_where_conditions)
       ELSE ""

\* " WHERE " and the parenthesized conditions joined by AND.
final_where_clause(base, window) ==
  LET all_where_conditions ==
        (IF base # "" THEN << "(" \o base \o ")" >> ELSE << >>)
        \o (IF window # "" THEN << "(" \o window \o ")" >> ELSE << >>)
  IN IF all_where_conditions # << >>
       THEN " WHERE " \o JoinAnd(all_where_conditions)
       ELSE ""

\* generate_test_sql(test_type, model_name, column_name, config): exc is the
\* exception raised (None when it returns), ret the returned SQL or None.
\* config is the dict after 'config = config or {}': a caller without a
\* config passes EmptyDict.
generate_test_sql(test_type, model_name, column_name, config) ==
  LET parts == SplitDots(model_name)
  IN IF Len(parts) # 3 THEN [exc |-> "ValueError", ret |-> None]
     ELSE
       LET quoted_model_name ==
             Quoted(parts[1]) \o "." \o Quoted(parts[2]) \o "." \o Quoted(parts[3])
           quoted_column_name ==
             IF column_name # "N/A" THEN Quoted(column_name) ELSE None
           base == base_condition_content(test_type, column_name, config)
           where == final_where_clause(base, time_window_filter_content(config))
       IN IF base = None THEN [exc |-> None, ret |-> None]
          ELSE IF test_type = "unique"
            THEN [exc |-> None,
                  ret |-> "\n        SELECT COUNT(*) FROM (\n            SELECT "
                          \o Fmt(quoted_column_name) \o "\n            FROM "
                          \o quoted_model_name \o "\n            " \o where
                          \o "\n            GROUP BY " \o Fmt(quoted_column_name)
                          \o "\n            HAVING COUNT(*) > 1\n        )\n        "]
          ELSE [exc |-> None,
                ret |-> "SELECT COUNT(*) FROM " \o quoted_model_name \o where]

(* ---------------------------------------------------------------------- *)
(* run_automatic_dq_checks.py: discovery helpers                          *)
(* ---------------------------------------------------------------------- *)

priority_order ==
  << "UPDATED_AT", "UPDATEDAT", "CREATED_AT", "CREATEDAT", "TIMESTAMP",
     "EVENTTIMESTAMP", "DATE", "DATE_PART", "ACTIVE_DATE", "INSTALL_DATE",
     "REGISTERED_AT", "LAST_ACTIVE" >>

\* [c[0] for c in cols if "DATE" in c[1].upper() or "TIMESTAMP" in c[1].upper()]
date_type_cols(cols) ==
  SelectSeq(cols, LAMBDA c : Contains(Upper(c.type), "DATE")
                              \/ Contains(Upper(c.type), "TIMESTAMP"))

\* next(c[0] for c in cols if c[0].upper() == key)
FirstNamed(cols, key) ==
  cols[CHOOSE i \in 1..Len(cols) :
         /\ Upper(cols[i].name) = key
         /\ \A j \in 1..(i - 1) : Upper(cols[j].name) # key].name

RECURSIVE PriorityScan(_, _)
\* The loop over priority_order from position i on; None when it ends
\* without returning.
PriorityScan(cols, i) ==
  IF i > Len(priority_order) THEN None
  ELSE IF /\ \E k \in 1..Len(cols) : Upper(cols[k].name) = priority_order[i]
          /\ \E d \in 1..Len(date_type_cols(cols)) :
               Upper(date_type_cols(cols)[d].name)
                 = Upper(FirstNamed(cols, priority_order[i]))
    THEN FirstNamed(cols, priority_order[i])
  ELSE PriorityScan(cols, i + 1)

\* get_date_column once DESCRIBE TABLE has answered: described is FALSE when
\* the statement raised, cols are the rows it returned.
get_date_column(described, cols) ==
  IF ~described THEN None
  ELSE IF PriorityScan(cols, 1) # None THEN PriorityScan(cols, 1)
  ELSE IF date_type_cols(cols) # << >> THEN date_type_cols(cols)[1].name
  ELSE None

\* is_table_active: exc is the exception it raises (the split of line 101 is
\* outside its try), ret its result. activity is what the MAX query does:
\* "recent", "stale", "empty" (MAX is NULL) or "error" (the query raises).
is_table_active(fqn, activity) ==
  IF Len(SplitDots(fqn)) # 3 THEN [exc |-> "ValueError", ret |-> FALSE]
  ELSE [exc |-> None, ret |-> (activity = "recent")]

\* get_table_columns: exc is the exception it raises (the split of line 180
\* is outside its try), ret the column dicts, [] when DESCRIBE TABLE raised.
get_table_columns(fqn, described, cols) ==
  IF Len(SplitDots(fqn)) # 3 THEN [exc |-> "ValueError", ret |-> << >>]
  ELSE [exc |-> None, ret |-> IF described THEN cols ELSE << >>]

(* ---------------------------------------------------------------------- *)
(* run_automatic_dq_checks.py: run_all_checks helpers                     *)
(* ---------------------------------------------------------------------- *)

QUERY_TIMEOUT_SECONDS == 30

\* The Snowflake error number the code takes for a timeout.
TimeoutErrno == 604

\* test.get(key, default)
TestGet(test, key, default) == IF key \in DOMAIN test THEN test[key] ELSE default

\* model.get('tests', [])
ModelTests(model) == IF "tests" \in DOMAIN model THEN model["tests"] ELSE << >>

RECURSIVE FlatTests(_)
\* The tests in the order the nested loops of run_all_checks visit them,
\* each with its model's name.
FlatTests(rules) ==
  IF rules = << >> THEN << >>
  ELSE [i \in 1..Len(ModelTests(Head(rules))) |->
          [model_name |-> Head(rules).name, test |-> ModelTests(Head(rules))[i]]]
       \o FlatTests(Tail(rules))

\* total_tests = sum(len(model.get('tests', [])) for model in rules)
total_tests(rules) == Len(FlatTests(rules))

\* The compile of line 356 for one visited test.
CompileTest(entry) ==
  generate_test_sql(TestGet(entry.test, "type", None), entry.model_name,
                    TestGet(entry.test, "column_name", "N/A"),
                    TestGet(entry.test, "config", EmptyDict))

\* The try/except of lines 364-382 with >= in place of >.
ClassifyOutcomeGe(o) ==
  IF o.kind = "row"
    THEN [status |-> IF o.scalar >= 0 THEN "fail" ELSE "pass",
          failing_rows |-> o.scalar]
  ELSE IF o.kind = "raise" /\ o.exc.type = "ProgrammingError"
    THEN [status |-> IF Contains(Lower(o.exc.msg), "timed out")
                       \/ o.exc.errno = TimeoutErrno
                       THEN "timeout" ELSE "error",
          failing_rows |-> -1]
  ELSE [status |-> "error", failing_rows |-> -1]

\* The try/except of lines 364-382 for what the warehouse did with the
\* statement: a row with an integer scalar; a ProgrammingError; any other
\* exception, which the last except clause takes (as it takes the TypeError
\* of a missing row, "no_row", and of a scalar that is no number, "row_text").
ClassifyOutcome(o) ==
  IF o.kind = "row"
    THEN [status |-> IF o.scalar > 0 THEN "fail" ELSE "pass",
          failing_rows |-> o.scalar]
  ELSE IF o.kind = "raise" /\ o.exc.type = "ProgrammingError"
    THEN [status |-> IF Contains(Lower(o.exc.msg), "timed out")
                       \/ o.exc.errno = TimeoutErrno
                       THEN "timeout" ELSE "error",
          failing_rows |-> -1]
  ELSE [status |-> "error", failing_rows |-> -1]

\* cursor.execute(sql, timeout=...) with a retry: the statement goes out twice.
SubmitStatementTwice(log, k, sql) ==
  log \o << [test |-> k, sql |-> sql, timeout |-> QUERY_TIMEOUT_SECONDS],
            [test |-> k, sql |-> sql, timeout |-> QUERY_TIMEOUT_SECONDS] >>

\* cursor.execute(sql, timeout=QUERY_TIMEOUT_SECONDS) for the k-th test: the
\* log of statements sent to the warehouse.
SubmitStatement(log, k, sql) ==
  Append(log, [test |-> k, sql |-> sql, timeout |-> QUERY_TIMEOUT_SECONDS])

\* The result dict of lines 385-389 (its timestamp, which nothing reads, is
\* left out).
ResultRecord(entry, status, failing_rows) ==
  [model_name |-> entry.model_name,
   column_name |-> TestGet(entry.test, "column_name", "N/A"),
   test_type |-> TestGet(entry.test, "type", None),
   status |-> status,
   failing_rows |-> failing_rows,
   description |-> TestGet(entry.test, "description", "No description.")]

\* results.append(...) putting the record first.
AppendResultFirst(list, rec) == << rec >> \o list

\* results.append(...)
AppendResult(list, rec) == Append(list, rec)

\* The exit decision of lines 445-464 without the timeouts.
ExitCodeNoTimeouts(res) ==
  IF \E i \in 1..Len(res) : res[i].status \in {"fail", "error"} THEN 1 ELSE 0

\* The exit decision of lines 445-464: 1 when failed, errors or timeouts is
\* positive, 0 (main returns) otherwise.
ExitCode(res) ==
  IF \E i \in 1..Len(res) : res[i].status \in {"fail", "error", "timeout"}
    THEN 1 ELSE 0

(* ---------------------------------------------------------------------- *)
(* The warehouse and the inputs                                           *)
(* ---------------------------------------------------------------------- *)

\* The largest COUNT(*) a statement returns in the model.
MaxScalar == 1

\* The most tests in a rule list handed to run_all_checks directly.
MaxRunTests == 3

\* The most columns of a table handed to generate_rules_for_table directly.
MaxColumns == 2

\* The largest time_window_days a caller of generate_test_sql supplies.
MaxWindowDays == 1

Col(n, t) == [name |-> n, type |-> t]

\* config.TARGET_SCHEMAS: the (database, schema) pairs scanned.
TARGET_SCHEMAS == << << "DWH", "PUBLIC" >>, << "DWH", "STAGE" >> >>

\* What SHOW TABLES lists per schema of TARGET_SCHEMAS, with the columns
\* DESCRIBE TABLE returns. MY.EVENTS is a table whose name holds a dot;
\* AUDIT has two columns whose names differ in letter case only.
Catalog ==
  << << [name |-> "USERS",
         columns |-> << Col("ID", "NUMBER(38,0)"), Col("LOADED_AT", "TIMESTAMP_NTZ(9)") >>],
        [name |-> "MY.EVENTS",
         columns |-> << Col("EVENT_ID", "NUMBER(38,0)"), Col("LOADED_AT", "TIMESTAMP_NTZ(9)") >>],
        [name |-> "ORDERS",
         columns |-> << Col("ORDER_ID", "NUMBER(38,0)"), Col("LOADED_AT", "TIMESTAMP_NTZ(9)") >>] >>,
     << [name |-> "NOTES",
         columns |-> << Col("BODY", "VARCHAR(16777216)") >>],
        [name |-> "LOG",
         columns |-> << Col("LOADED_AT", "TIMESTAMP_NTZ(9)") >>],
        [name |-> "AUDIT",
         columns |-> << Col("registered_at", "VARCHAR(32)"),
                        Col("REGISTERED_AT", "TIMESTAMP_NTZ(9)") >>] >> >>

\* fqn = f"{db}.{schema}.{table_name}"
Fqn(schema_index, table_name) ==
  TARGET_SCHEMAS[schema_index][1] \o "." \o TARGET_SCHEMAS[schema_index][2]
    \o "." \o table_name

\* The fqn of every table SHOW TABLES lists for a schema.
ListedFqns(schema_index) ==
  { Fqn(schema_index, Catalog[schema_index][i].name) :
      i \in 1..Len(Catalog[schema_index]) }

\* The columns DESCRIBE TABLE returns for a table of the catalog.
CatalogColumns(fqn) ==
  LET hit == CHOOSE p \in { << s, i >> : s \in 1..Len(Catalog), i \in 1..3 } :
               /\ p[2] <= Len(Catalog[p[1]])
               /\ Fqn(p[1], Catalog[p[1]][p[2]].name) = fqn
  IN Catalog[hit[1]][hit[2]].columns

\* What the MAX query of is_table_active can do.
Activities == {"recent", "stale", "empty", "error"}

\* The exceptions cursor.execute raises in the model: type, errno and str(e).
Exceptions ==
  { [type |-> "ProgrammingError", errno |-> 604, msg |-> "SQL execution canceled"],
    [type |-> "ProgrammingError", errno |-> 630,
       msg |-> "Statement reached its timeout and was canceled"],
    [type |-> "ProgrammingError", errno |-> 1003, msg |-> "SQL compilation error"],
    [type |-> "ProgrammingError", errno |-> 2003,
       msg |-> "Object 'REQUEST_TIMED_OUT' does not exist"],
    [type |-> "ProgrammingError", errno |-> 904,
       msg |-> "SQL compilation error: invalid identifier 'TIMED OUT'"],
    [type |-> "OperationalError", errno |-> 250003, msg |-> "Read timed out"] }

\* What the warehouse can do with a statement run with the given timeout:
\* elapsed is the time execution took. Past the timeout it raises, whatever
\* the exception; within it, it answers with a row holding a count, a row
\* holding text, no row, or an exception.
Outcomes(timeout) ==
  { [kind |-> "row", elapsed |-> 1, scalar |-> n] : n \in 0..MaxScalar }
  \cup { [kind |-> "row_text", elapsed |-> 1], [kind |-> "no_row", elapsed |-> 1] }
  \cup { [kind |-> "raise", elapsed |-> t, exc |-> e] :
           t \in {1, timeout + 1}, e \in Exceptions }

\* No statement was run for the test visited last.
NoOutcome == [kind |-> "none", elapsed |-> 0]

\* Whether execution went past the timeout it was given.
Exceeded(o) == o.kind # "none" /\ o.elapsed > QUERY_TIMEOUT_SECONDS

\* Tests handed to run_all_checks directly: well formed ones, a custom_sql
\* without 'sql', one with an empty fragment, an unknown type, one without
\* config.
WindowCfg == [date_window_col |-> "LOADED_AT", check_yesterday_only |-> TRUE]

TestNotNull ==
  [type |-> "not_null", column_name |-> "ID", description |-> "ID should not be NULL.",
   config |-> WindowCfg]

TestUnique ==
  [type |-> "unique", column_name |-> "ID", description |-> "ID should be unique."]

TestCustom ==
  [type |-> "custom_sql", column_name |-> "AMOUNT",
   description |-> "AMOUNT should be non-negative.",
   config |-> DictWith(WindowCfg, "sql", "\"AMOUNT\" < 0")]

TestCustomNoSql ==
  [type |-> "custom_sql", column_name |-> "AMOUNT",
   description |-> "AMOUNT rule without a fragment.", config |-> WindowCfg]

TestCustomEmptySql ==
  [type |-> "custom_sql", column_name |-> "N/A", config |-> [sql |-> ""]]

TestUnknownType ==
  [type |-> "accepted_values", column_name |-> "STATUS",
   description |-> "STATUS should be a known value.", config |-> EmptyDict]

\* Models handed to run_all_checks directly; MY.EVENTS and MY.AUDIT are
\* tables whose name holds a dot, the last model has no 'tests' key.
ModelPool ==
  { [name |-> "DWH.PUBLIC.USERS", tests |-> << TestNotNull, TestUnique >>],
    [name |-> "DWH.PUBLIC.MY.EVENTS", tests |-> << TestNotNull >>],
    [name |-> "DWH.PUBLIC.MY.AUDIT", tests |-> << TestCustomNoSql >>],
    [name |-> "DWH.PUBLIC.ORDERS", tests |-> << TestCustomNoSql, TestCustom >>],
    [name |-> "DWH.STAGE.PAYMENTS", tests |-> << TestUnknownType >>],
    [name |-> "DWH.STAGE.REFUNDS", tests |-> << TestCustomEmptySql, TestNotNull >>],
    [name |-> "DWH.STAGE.LOG"] }

\* The rule lists of the model: up to two models of the pool with at most
\* MaxRunTests tests in all.
RuleLists ==
  { r \in { << >> } \cup { << a >> : a \in ModelPool }
          \cup { << a, b >> : a \in ModelPool, b \in ModelPool } :
      total_tests(r) <= MaxRunTests }

\* Columns handed to generate_rules_for_table directly.
ColumnPool ==
  { Col("ID", "NUMBER"), Col("EMAIL", "VARCHAR"), Col("id", "VARCHAR(36)"),
    Col("USER_ID", "NUMBER(38,0)"), Col("Date_Id", "NUMBER(8,0)"),
    Col("CAMPAIGN_ID", "VARCHAR(64)"), Col("ORDER_ID", "NUMBER(38,0)"),
    Col("updatedAt", "TIMESTAMP_NTZ(9)"), Col("createdAt", "TIMESTAMP_NTZ(9)") }

RECURSIVE ColumnLists(_)
\* The lists of n distinct-named columns of the pool.
ColumnLists(n) ==
  IF n = 0 THEN { << >> }
  ELSE UNION { { Append(l, c) : c \in { x \in ColumnPool :
                                           \A i \in 1..Len(l) : l[i].name # x.name } } :
               l \in ColumnLists(n - 1) }

SynthTableNames == {"DWH.PUBLIC.T", "DWH.PUBLIC.ACCOUNTS", "DWH.PUBLIC.DIM_DATES"}

\* Whole tables as DESCRIBE TABLE lists them, with the date column
\* get_date_column finds for each.
SchemaTables ==
  { [table_name |-> "DWH.PUBLIC.ACCOUNTS", date_col |-> "updatedAt",
     columns |-> << Col("ID", "NUMBER(38,0)"), Col("isConfirmedEmail", "BOOLEAN"),
                    Col("email", "VARCHAR(256)"), Col("createdAt", "TIMESTAMP_NTZ(9)"),
                    Col("updatedAt", "TIMESTAMP_NTZ(9)") >>],
    [table_name |-> "DWH.PUBLIC.DIM_USERS", date_col |-> "INSTALL_DATE",
     columns |-> << Col("USER_ID", "NUMBER(38,0)"), Col("INSTALL_DATE", "DATE"),
                    Col("IS_ACTIVE_SUB_IND", "NUMBER(1,0)"),
                    Col("NUMBER_OF_ACTIVE_SUBSCRIPTIONS", "NUMBER(38,0)") >>],
    [table_name |-> "DWH.PUBLIC.CAMPAIGN_STATS", date_col |-> "DATE",
     columns |-> << Col("DATE_ID", "NUMBER(8,0)"), Col("DATE", "DATE"),
                    Col("FIRST_IMPRESSION_DATE", "DATE"),
                    Col("LAST_IMPRESSION_DATE", "DATE"), Col("CLICKS", "NUMBER(38,0)"),
                    Col("IMPRESSIONS", "NUMBER(38,0)"), Col("YEAR", "NUMBER(4,0)") >>],
    [table_name |-> "DWH.PUBLIC.Dim_Dates_Daily", date_col |-> "DATE",
     columns |-> << Col("DATE", "DATE"), Col("YEAR", "NUMBER(4,0)"),
                    Col("MONTH_ID", "NUMBER(2,0)"),
                    Col("updatedAt", "TIMESTAMP_NTZ(9)") >>],
    [table_name |-> "DWH.PUBLIC.DIM_USERS_ACCOUNTS", date_col |-> "INSTALL_DATE",
     columns |-> << Col("USER_ID", "NUMBER(38,0)"), Col("INSTALL_DATE", "DATE"),
                    Col("IS_ACTIVE_SUB_IND", "NUMBER(1,0)"),
                    Col("NUMBER_OF_ACTIVE_SUBSCRIPTIONS", "NUMBER(38,0)") >>],
    [table_name |-> "DWH.DIM_DATES_MART.EVENTS", date_col |-> "updatedAt",
     columns |-> << Col("EVENT_ID", "NUMBER(38,0)"),
                    Col("updatedAt", "TIMESTAMP_NTZ(9)") >>],
    [table_name |-> "DWH.PUBLIC.CAMPAIGN_SPEND", date_col |-> "DATE",
     columns |-> << Col("CAMPAIGN_ID", "NUMBER(38,0)"), Col("DATE", "DATE"),
                    Col("SPEND_PER_CLICKS", "NUMBER(38,4)") >>] }

\* The values of datetime.now().year.
Years == {2026, 2027}

\* What a caller of generate_test_sql does about time_window_days: supplies
\* none, or supplies the integer n.
WindowDayChoices ==
  { [given |-> FALSE, n |-> 0] }
  \cup { [given |-> TRUE, n |-> k] : k \in (-1)..MaxWindowDays }

\* dq_results.json as an earlier run left it.
PriorFile ==
  << [model_name |-> "DWH.PUBLIC.OLD", column_name |-> "ID", test_type |-> "not_null",
      status |-> "fail", failing_rows |-> 7, description |-> "An earlier run."] >>

(* ---------------------------------------------------------------------- *)
(* The warehouse: what cursor.execute(sql) answers for a table's rows      *)
(* ---------------------------------------------------------------------- *)

\* A column value: SQL NULL, or a number (dates are day numbers).
NullV == [null |-> TRUE, n |-> 0]
NumV(n) == [null |-> FALSE, n |-> n]

\* CURRENT_DATE as a day number.
Today == 3

Letters ==
  {"A", "B", "C", "D", "E", "F", "G", "H", "I", "J", "K", "L", "M", "N", "O",
   "P", "Q", "R", "S", "T", "U", "V", "W", "X", "Y", "Z", "_"}

IsDigit(c) == c \in {"0", "1", "2", "3", "4", "5", "6", "7", "8", "9"}

IsWordChar(c) == UpperChar(c) \in Letters \/ IsDigit(c)

\* The first position from i on that is past the text or holds a
\* character of the kind asked for: "space" (not a blank), "word" (not a
\* word character), or a quote character (that quote).
FirstOther(s, i, kind) ==
  LET stops(j) ==
        \/ j > Len(s)
        \/ CASE kind = "space" -> SubSeq(s, j, j) \notin {" ", "\n"}
              [] kind = "word" -> ~IsWordChar(SubSeq(s, j, j))
              [] OTHER -> SubSeq(s, j, j) = kind
  IN CHOOSE j \in i..(Len(s) + 1) : stops(j) /\ \A m \in i..(j - 1) : ~stops(m)

WordEnd(s, i) == FirstOther(s, i, "word")

CloseAt(s, i, q) == FirstOther(s, i, q)

RECURSIVE TokensFrom(_, _)
\* The tokens of SQL text from position i on: delimited identifiers ("id"),
\* string literals ("str"), numbers ("num"), words ("w") and symbols ("sym").
TokensFrom(s, i) ==
  IF i > Len(s) THEN << >>
  ELSE
    LET c == SubSeq(s, i, i)
    IN IF c \in {" ", "\n"} THEN TokensFrom(s, FirstOther(s, i, "space"))
       ELSE IF c \in {"\"", "'"}
         THEN LET j == CloseAt(s, i + 1, c)
              IN << [k |-> IF c = "'" THEN "str" ELSE "id",
                     v |-> SubSeq(s, i + 1, j - 1)] >> \o TokensFrom(s, j + 1)
       ELSE IF IsWordChar(c)
         THEN LET j == WordEnd(s, i)
              IN << [k |-> IF IsDigit(c) THEN "num" ELSE "w",
                     v |-> SubSeq(s, i, j - 1)] >> \o TokensFrom(s, j)
       ELSE IF i < Len(s) /\ SubSeq(s, i, i + 1) \in {">=", "<=", "<>", "!="}
         THEN << [k |-> "sym", v |-> SubSeq(s, i, i + 1)] >> \o TokensFrom(s, i + 2)
       ELSE << [k |-> "sym", v |-> c] >> \o TokensFrom(s, i + 1)

RECURSIVE TokensIn(_, _, _, _)
\* The tokens of s between lo and hi, cuts being the positions of the
\* blanks outside quotes: the text is halved at a cut near its middle.
TokensIn(s, lo, hi, cuts) ==
  LET inner == { m \in cuts : lo < m /\ m < hi }
      mid == (lo + hi) \div 2
      near == { m \in inner : m - mid \in (-12)..12 }
      m == IF near # {} THEN CHOOSE x \in near : TRUE
           ELSE CHOOSE x \in inner :
                  \A o \in inner : (x - mid) * (x - mid) <= (o - mid) * (o - mid)
  IN IF hi - lo < 24 \/ inner = {} THEN TokensFrom(SubSeq(s, lo, hi), 1)
     ELSE TokensIn(s, lo, m - 1, inner) \o TokensIn(s, m + 1, hi, inner)

\* The tokens of SQL text.
Tokens(s) ==
  LET quotes == { j \in 1..Len(s) : SubSeq(s, j, j) \in {"\"", "'"} }
      cuts == { m \in 1..Len(s) :
                  /\ SubSeq(s, m, m) \in {" ", "\n"}
                  /\ Cardinality({ q \in quotes : q < m }) % 2 = 0 }
  IN TokensIn(s, 1, Len(s), cuts)

\* The token at position p, an "end" token past the last.
Tok(ts, p) == IF p >= 1 /\ p <= Len(ts) THEN ts[p] ELSE [k |-> "end", v |-> ""]

\* The token at p is the keyword (words are case-insensitive).
IsW(ts, p, word) == Tok(ts, p).k = "w" /\ Upper(Tok(ts, p).v) = word

\* The token at p is the symbol.
IsS(ts, p, sym) == Tok(ts, p).k = "sym" /\ Tok(ts, p).v = sym

DigitVal(c) ==
  CASE c = "0" -> 0 [] c = "1" -> 1 [] c = "2" -> 2 [] c = "3" -> 3 [] c = "4" -> 4
    [] c = "5" -> 5 [] c = "6" -> 6 [] c = "7" -> 7 [] c = "8" -> 8 [] c = "9" -> 9
    [] OTHER -> 0

RECURSIVE LeadingInt(_, _, _)
\* The number the digits of s from position i on spell, acc being the
\* number read so far.
LeadingInt(s, i, acc) ==
  IF i <= Len(s) /\ IsDigit(SubSeq(s, i, i))
    THEN LeadingInt(s, i + 1, acc * 10 + DigitVal(SubSeq(s, i, i)))
    ELSE acc

\* The result of reading a value: ok is FALSE for text that does not
\* compile, v the value, p the position after it.
Bad(p) == [ok |-> FALSE, v |-> NullV, p |-> p]

\* A term: a delimited identifier (the column of exactly that name), a
\* number, CURRENT_DATE or CURRENT_DATE(), INTERVAL 'n DAY' (n days), or an
\* undelimited identifier (the column of the uppercased name).
Term(ts, p, row) ==
  LET t == Tok(ts, p)
  IN IF t.k = "id"
       THEN IF t.v \in DOMAIN row THEN [ok |-> TRUE, v |-> row[t.v], p |-> p + 1]
            ELSE Bad(p)
     ELSE IF t.k = "num"
       THEN [ok |-> TRUE, v |-> NumV(LeadingInt(t.v, 1, 0)), p |-> p + 1]
     ELSE IF IsW(ts, p, "CURRENT_DATE")
       THEN [ok |-> TRUE, v |-> NumV(Today),
             p |-> IF IsS(ts, p + 1, "(") /\ IsS(ts, p + 2, ")") THEN p + 3 ELSE p + 1]
     ELSE IF IsW(ts, p, "INTERVAL") /\ Tok(ts, p + 1).k = "str"
       THEN [ok |-> TRUE, v |-> NumV(LeadingInt(Tok(ts, p + 1).v, 1, 0)), p |-> p + 2]
     ELSE IF t.k = "w" /\ Upper(t.v) \in DOMAIN row
       THEN [ok |-> TRUE, v |-> row[Upper(t.v)], p |-> p + 1]
     ELSE Bad(p)

RECURSIVE OperandRest(_, _, _)

\* left less right, and the subtractions that follow.
Subtract(left, right, ts, row) ==
  OperandRest([ok |-> right.ok,
               v |-> IF left.v.null \/ right.v.null THEN NullV
                     ELSE NumV(left.v.n - right.v.n),
               p |-> right.p], ts, row)

\* The subtractions that follow a value already read.
OperandRest(left, ts, row) ==
  IF left.ok /\ IsS(ts, left.p, "-")
    THEN Subtract(left, Term(ts, left.p + 1, row), ts, row)
    ELSE left

\* An operand: a term, or terms subtracted from left to right.
Operand(ts, p, row) == OperandRest(Term(ts, p, row), ts, row)

\* SQL's three truth values are "T", "F" and "U" (unknown); "E" stands for
\* text that does not compile.
Not3(a) == CASE a = "T" -> "F" [] a = "F" -> "T" [] OTHER -> a

And3(a, b) ==
  IF a = "E" \/ b = "E" THEN "E"
  ELSE IF a = "F" \/ b = "F" THEN "F"
  ELSE IF a = "T" /\ b = "T" THEN "T" ELSE "U"

Or3(a, b) ==
  IF a = "E" \/ b = "E" THEN "E"
  ELSE IF a = "T" \/ b = "T" THEN "T"
  ELSE IF a = "F" /\ b = "F" THEN "F" ELSE "U"

ComparisonSymbols == {">", "<", ">=", "<=", "<>", "!=", "="}

\* A comparison of two values: unknown when either is NULL.
Compare3(op, a, b) ==
  IF a.null \/ b.null THEN "U"
  ELSE IF CASE op = ">" -> a.n > b.n [] op = "<" -> a.n < b.n
            [] op = ">=" -> a.n >= b.n [] op = "<=" -> a.n <= b.n
            [] op = "=" -> a.n = b.n [] OTHER -> a.n # b.n
    THEN "T" ELSE "F"

RECURSIVE OrExpr(_, _, _)
RECURSIVE AndExpr(_, _, _)
RECURSIVE NotExpr(_, _, _)
RECURSIVE OrRest(_, _, _)
RECURSIVE AndRest(_, _, _)

\* The condition e read after "(" is followed by ")".
Closed(ts, e) ==
  IF IsS(ts, e.p, ")") THEN [v |-> e.v, p |-> e.p + 1] ELSE [v |-> "E", p |-> e.p]

\* The comparison of the operand a with the operand b read after op.
ComparedWith(op, a, b) ==
  [v |-> IF b.ok THEN Compare3(op, a.v, b.v) ELSE "E", p |-> b.p]

\* What follows the operand a: IS NULL, IS NOT NULL, or a comparison.
Compared(ts, row, a) ==
  IF ~a.ok THEN [v |-> "E", p |-> a.p]
  ELSE IF IsW(ts, a.p, "IS") /\ IsW(ts, a.p + 1, "NULL")
    THEN [v |-> IF a.v.null THEN "T" ELSE "F", p |-> a.p + 2]
  ELSE IF IsW(ts, a.p, "IS") /\ IsW(ts, a.p + 1, "NOT") /\ IsW(ts, a.p + 2, "NULL")
    THEN [v |-> IF a.v.null THEN "F" ELSE "T", p |-> a.p + 3]
  ELSE IF Tok(ts, a.p).k = "sym" /\ Tok(ts, a.p).v \in ComparisonSymbols
    THEN ComparedWith(Tok(ts, a.p).v, a, Operand(ts, a.p + 1, row))
  ELSE [v |-> "E", p |-> a.p]

\* A predicate: a parenthesized condition, x IS NULL, x IS NOT NULL, or a
\* comparison of two operands. Its value v is a truth value.
Predicate(ts, p, row) ==
  IF IsS(ts, p, "(")
    THEN Closed(ts, OrExpr(ts, p + 1, row))
    ELSE Compared(ts, row, Operand(ts, p, row))

Negated(e) == [v |-> Not3(e.v), p |-> e.p]

\* NOT binds tighter than AND, AND tighter than OR.
NotExpr(ts, p, row) ==
  IF IsW(ts, p, "NOT") THEN Negated(NotExpr(ts, p + 1, row))
  ELSE Predicate(ts, p, row)

AndJoin(left, right, ts, row) ==
  AndRest([v |-> And3(left.v, right.v), p |-> right.p], ts, row)

AndRest(left, ts, row) ==
  IF left.v # "E" /\ IsW(ts, left.p, "AND")
    THEN AndJoin(left, NotExpr(ts, left.p + 1, row), ts, row)
    ELSE left

AndExpr(ts, p, row) == AndRest(NotExpr(ts, p, row), ts, row)

OrJoin(left, right, ts, row) ==
  OrRest([v |-> Or3(left.v, right.v), p |-> right.p], ts, row)

OrRest(left, ts, row) ==
  IF left.v # "E" /\ IsW(ts, left.p, "OR")
    THEN OrJoin(left, AndExpr(ts, left.p + 1, row), ts, row)
    ELSE left

\* A condition and its truth value for a row.
OrExpr(ts, p, row) == OrRest(AndExpr(ts, p, row), ts, row)

\* The value of the condition e when it is the whole of the tokens.
WholeValue(ts, e) == IF e.p = Len(ts) + 1 THEN e.v ELSE "E"

TokensValue(ts, row) == WholeValue(ts, OrExpr(ts, 1, row))

\* The truth value of a whole condition text for a row.
ConditionValue(text, row) == TokensValue(Tokens(text), row)

\* The tokens from p on are the words and symbols given.
RECURSIVE Matches(_, _, _)
Matches(ts, p, expected) ==
  expected = << >>
  \/ /\ Tok(ts, p).k \in {"w", "sym"} /\ Upper(Tok(ts, p).v) = Head(expected)
     /\ Matches(ts, p + 1, Tail(expected))

\* A three-part delimited table name starts at p.
IsTableName(ts, p) ==
  /\ Tok(ts, p).k = "id" /\ IsS(ts, p + 1, ".") /\ Tok(ts, p + 2).k = "id"
  /\ IsS(ts, p + 3, ".") /\ Tok(ts, p + 4).k = "id"

\* The rows the condition at position p is true for; probe is the condition
\* read for a row of NULLs, which shows whether it compiles and where it
\* ends.
Filtered(ts, p, table, probe) ==
  [ok |-> probe.v # "E",
   kept |-> { i \in 1..Len(table.rows) : OrExpr(ts, p, table.rows[i]).v = "T" },
   p |-> probe.p]

\* FROM <table> [WHERE <condition>] from position p on, for a table (its
\* column names cols and its rows): ok, the rows (by position) the condition
\* is true for, and the position after.
FromWhere(ts, p, table) ==
  IF ~(IsW(ts, p, "FROM") /\ IsTableName(ts, p + 1))
    THEN [ok |-> FALSE, kept |-> {}, p |-> p]
  ELSE IF ~IsW(ts, p + 6, "WHERE")
    THEN [ok |-> TRUE, kept |-> 1..Len(table.rows), p |-> p + 6]
  ELSE Filtered(ts, p + 7, table, OrExpr(ts, p + 7, [c \in table.cols |-> NullV]))

\* The exception of a statement that does not compile.
CompilationError ==
  [type |-> "ProgrammingError", errno |-> 1003, msg |-> "SQL compilation error"]

StatementFailed == [kind |-> "raise", elapsed |-> 1, exc |-> CompilationError]

\* The answer to SELECT COUNT(*) FROM (SELECT <col> fw GROUP BY <col> HAVING
\* COUNT(*) > n), fw being the FROM and WHERE read at position 10: the
\* number of groups of more than n rows, all NULLs making one group.
GroupedCount(ts, table, fw) ==
  LET rows == table.rows
      g == Tok(ts, 9)
      n == LeadingInt(Tok(ts, fw.p + 9).v, 1, 0)
      groups == { rows[i][g.v] : i \in fw.kept }
  IN IF /\ IsW(ts, 8, "SELECT") /\ g.k = "id" /\ fw.ok
        /\ g.v \in table.cols
        /\ Matches(ts, fw.p, << "GROUP", "BY" >>)
        /\ Tok(ts, fw.p + 2) = g
        /\ Matches(ts, fw.p + 3, << "HAVING", "COUNT", "(", "*", ")", ">" >>)
        /\ Tok(ts, fw.p + 9).k = "num"
        /\ IsS(ts, fw.p + 10, ")") /\ Len(ts) = fw.p + 10
       THEN [kind |-> "row", elapsed |-> 1,
             scalar |-> Cardinality({ v \in groups :
                          Cardinality({ i \in fw.kept : rows[i][g.v] = v }) > n })]
       ELSE StatementFailed

\* The answer to SELECT COUNT(*) fw, fw being the FROM and WHERE read at
\* position 6: the number of rows kept.
PlainCount(ts, fw) ==
  IF fw.ok /\ fw.p = Len(ts) + 1
    THEN [kind |-> "row", elapsed |-> 1, scalar |-> Cardinality(fw.kept)]
    ELSE StatementFailed

ExecuteTokens(ts, table) ==
  IF ~Matches(ts, 1, << "SELECT", "COUNT", "(", "*", ")" >>) THEN StatementFailed
  ELSE IF IsW(ts, 6, "FROM") /\ IsS(ts, 7, "(")
    THEN GroupedCount(ts, table, FromWhere(ts, 10, table))
    ELSE PlainCount(ts, FromWhere(ts, 6, table))

\* What a warehouse holding the table answers to a statement: the count of
\* SELECT COUNT(*) FROM <table> [WHERE ...], or of
\* SELECT COUNT(*) FROM (SELECT <col> FROM <table> [WHERE ...] GROUP BY <col>
\* HAVING COUNT(*) > n), where GROUP BY makes one group of all NULLs; a
\* compilation error for anything else.
ExecuteStatement(sql, table) == ExecuteTokens(Tokens(sql), table)

\* The most rows of a table the warehouse holds.
MaxRows == 2

\* The columns DESCRIBE TABLE lists for the table the warehouse holds.
ExecColumns == << Col("ID", "NUMBER(38,0)"), Col("updatedAt", "TIMESTAMP_NTZ(9)") >>

\* Its rows: ID and updatedAt (a day number) can each be NULL; updatedAt
\* lies before yesterday (1), in yesterday (2), in today (3) or in
\* tomorrow (4).
ExecRows ==
  [ID : {NullV, NumV(1), NumV(2)},
   updatedAt : {NullV} \cup {NumV(d) : d \in 1..(Today + 1)}]

\* A number that orders rows, to list each collection of rows once.
RowRank(r) ==
  10 * (IF r.ID.null THEN 0 ELSE r.ID.n) + (IF r.updatedAt.null THEN 0 ELSE r.updatedAt.n)

ExecTable(rows) == [known |-> TRUE, cols |-> {"ID", "updatedAt"}, rows |-> rows]

\* Five rows, ID NULL in one of them: all five of yesterday, or the NULL
\* row older than yesterday.
FiveRowsOneNull ==
  { ExecTable(<< [ID |-> NullV, updatedAt |-> NumV(d)],
                 [ID |-> NumV(1), updatedAt |-> NumV(2)],
                 [ID |-> NumV(2), updatedAt |-> NumV(2)],
                 [ID |-> NumV(3), updatedAt |-> NumV(2)],
                 [ID |-> NumV(4), updatedAt |-> NumV(2)] >>) : d \in {1, 2} }

\* The tables the warehouse can hold.
ExecTables ==
  FiveRowsOneNull
  \cup { ExecTable(rows) :
           rows \in UNION { { r \in [1..n -> ExecRows] :
                                \A i \in 1..(n - 1) : RowRank(r[i]) <= RowRank(r[i + 1]) } :
                            n \in 0..MaxRows } }

\* The tests run against it: those generate_rules_for_table makes for the
\* table, without a window, with yesterday's, or with a trailing one when
\* the caller supplies time_window_days; and a custom_sql test whose
\* fragment is an OR.
ExecTests ==
  LET windows == { [col |-> None, flag |-> FALSE], [col |-> "updatedAt", flag |-> TRUE],
                   [col |-> "updatedAt", flag |-> FALSE] }
      made(w) == generate_rules_for_table("DWH.PUBLIC.T", ExecColumns, w.col, w.flag,
                                          2026).tests
      either(w) == CustomTest("ID", base_test_config(w.col, w.flag),
                              "\"ID\" IS NULL OR \"ID\" > 1",
                              "ID should be 1.")
      plain == UNION { { made(w)[i] : i \in 1..Len(made(w)) } \cup { either(w) } :
                       w \in windows }
  IN plain
     \cup { [t EXCEPT !.config = DictWith(t.config, "time_window_days", n)] :
              t \in { x \in plain : x.config["date_window_col"] # None
                                    /\ ~x.config["check_yesterday_only"] },
              n \in 1..MaxWindowDays }

\* What cursor.execute(sql, timeout=...) can bring: the answer of the table
\* the warehouse holds when that is known, any outcome otherwise.
Answers(wh, sql, timeout) ==
  IF wh.known THEN { ExecuteStatement(sql, wh) } ELSE Outcomes(timeout)

(* ---------------------------------------------------------------------- *)
(* State                                                                  *)
(* ---------------------------------------------------------------------- *)

VARIABLES
  pc,                  \* where control is: "main", "discover", "generate",
                       \* "run_entry", "run_loop", "finally", "report",
                       \* "exited"; "returned"/"raised" after a direct call
                       \* of run_all_checks; "synth_*" for the pure functions
  caller,              \* who called run_all_checks: "main" or "direct"
  conn,                \* main's connection: "none", "open", "closed"
  schema_i,            \* discover_active_tables: index of the schema scanned
  scanning,            \* SHOW TABLES of schema_i has answered
  pending,             \* the table rows of schema_i not visited yet
  listed,              \* fqns SHOW TABLES has listed so far
  visited,             \* fqns the discovery loop body has started on
  active_tables_info,  \* the list discover_active_tables builds
  gen_i,               \* generate_all_rules: index into active_tables_info
  all_rules,           \* the list generate_all_rules builds
  rules,               \* the rules argument of run_all_checks
  cursor,              \* run_all_checks' cursor: "none", "open", "closed"
  test_counter,        \* run_all_checks' test_counter
  run_results,         \* run_all_checks' local results list
  submitted,           \* statements run_all_checks sent to the warehouse
  last_outcome,        \* what the warehouse did with the last visited test
  exception,           \* the exception propagating, None without one
  results,             \* main's results / the value run_all_checks returned
  results_file,        \* the records in dq_results.json
  exit_code,           \* the process exit code once pc = "exited"
  now_year,            \* datetime.now().year
  synth_in,            \* arguments of a direct generate_rules_for_table call
  synth_tests,         \* the tests that call returned
  synth_sql,           \* the last direct generate_test_sql call
  synth_again,         \* what a second generate_rules_for_table call returned
  warehouse            \* the table behind the connection, when it is known

vars ==
  << pc, caller, conn, schema_i, scanning, pending, listed, visited,
     active_tables_info, gen_i, all_rules, rules, cursor, test_counter,
     run_results, submitted, last_outcome, exception, results, results_file,
     exit_code, now_year, synth_in, synth_tests, synth_sql, synth_again,
     warehouse >>

discovery_vars == << schema_i, scanning, pending, listed, visited, active_tables_info >>
generate_vars == << gen_i, all_rules >>
run_vars == << cursor, test_counter, run_results, submitted, last_outcome >>
synth_vars == << synth_in, synth_tests, synth_sql, synth_again >>

\* No second call of generate_rules_for_table was made.
NotAgain == [called |-> FALSE, tests |-> << >>]

\* A warehouse whose tables are not known: any answer can come.
UnknownWarehouse == [known |-> FALSE, cols |-> {}, rows |-> << >>]

NoSynthInput ==
  [table_name |-> "", columns |-> << >>, primary_date_column |-> None,
   check_yesterday_only |-> FALSE]

NoSynthSql == [test |-> 0, days |-> [given |-> FALSE, n |-> 0], config |-> EmptyDict,
               out |-> [exc |-> None, ret |-> None]]

\* Everything but pc, caller, conn, rules, now_year and the synth inputs, as
\* it is before any function has run.
InitRest ==
  /\ schema_i = 1 /\ scanning = FALSE /\ pending = << >>
  /\ listed = {} /\ visited = {} /\ active_tables_info = << >>
  /\ gen_i = 1 /\ all_rules = << >>
  /\ cursor = "none" /\ test_counter = 0 /\ run_results = << >>
  /\ submitted = << >> /\ last_outcome = NoOutcome
  /\ exception = None /\ results = << >> /\ results_file = PriorFile
  /\ exit_code = 0
  /\ synth_tests = << >> /\ synth_sql = NoSynthSql
  /\ synth_again = NotAgain

\* The process at the start of main.
Init ==
  /\ pc = "main" /\ caller = "main" /\ conn = "none" /\ rules = << >>
  /\ now_year = 2026 /\ synth_in = NoSynthInput
  /\ warehouse = UnknownWarehouse
  /\ InitRest

\* A direct call of run_all_checks(conn, rules) on an open connection.
InitRun ==
  /\ pc = "run_entry" /\ caller = "direct" /\ conn = "open"
  /\ rules \in RuleLists
  /\ now_year = 2026 /\ synth_in = NoSynthInput
  /\ warehouse = UnknownWarehouse
  /\ InitRest

\* A direct call of run_all_checks for one test, on a warehouse holding a
\* known table.
InitExec ==
  /\ pc = "run_entry" /\ caller = "direct" /\ conn = "open"
  /\ rules \in { << [name |-> "DWH.PUBLIC.T", tests |-> << t >>] >> : t \in ExecTests }
  /\ now_year = 2026 /\ synth_in = NoSynthInput
  /\ warehouse \in ExecTables
  /\ InitRest

\* A direct call of generate_rules_for_table.
InitSynth ==
  /\ pc = "synth_input" /\ caller = "direct" /\ conn = "none" /\ rules = << >>
  /\ now_year = 2026
  /\ synth_in \in
       [table_name : SynthTableNames,
        columns : UNION { ColumnLists(n) : n \in 0..MaxColumns },
        primary_date_column : {None, "updatedAt"},
        check_yesterday_only : BOOLEAN]
       \cup UNION { { [table_name |-> t.table_name, columns |-> t.columns,
                        primary_date_column |-> d, check_yesterday_only |-> f] :
                        d \in {None, t.date_col}, f \in BOOLEAN } :
                      t \in SchemaTables }
  /\ warehouse = UnknownWarehouse
  /\ InitRest

(* ---------------------------------------------------------------------- *)
(* main and discover_active_tables                                        *)
(* ---------------------------------------------------------------------- *)

\* main, lines 406-409: get_snowflake_connection returns a connection or
\* None, and main exits with 1 on None.
Connect ==
  /\ pc = "main"
  /\ \E ok \in BOOLEAN :
       IF ok THEN /\ conn' = "open" /\ pc' = "discover"
                  /\ UNCHANGED exit_code
             ELSE /\ conn' = "none" /\ pc' = "exited" /\ exit_code' = 1
  /\ UNCHANGED << caller, discovery_vars, generate_vars, rules, run_vars,
                  exception, results, results_file, now_year, synth_vars, warehouse >>

\* discover_active_tables, lines 139-143 and 160-162: SHOW TABLES for the
\* next schema; when it raises the schema is logged and skipped.
ShowTables ==
  /\ pc = "discover" /\ schema_i <= Len(TARGET_SCHEMAS) /\ ~scanning
  /\ \E ok \in BOOLEAN :
       IF ok /\ Catalog[schema_i] # << >>
         THEN /\ scanning' = TRUE
              /\ pending' = Catalog[schema_i]
              /\ listed' = listed \cup ListedFqns(schema_i)
              /\ UNCHANGED schema_i
         ELSE /\ schema_i' = schema_i + 1
              /\ UNCHANGED << scanning, pending, listed >>
  /\ UNCHANGED << pc, caller, conn, visited, active_tables_info, generate_vars,
                  rules, run_vars, exception, results, results_file, exit_code,
                  now_year, synth_vars, warehouse >>

\* discover_active_tables, lines 144-162: the loop body for the next table
\* row. An exception of the body ends the scan of the schema (the try
\* encloses the loop).
DiscoverTable ==
  /\ pc = "discover" /\ scanning /\ pending # << >>
  /\ \E described \in BOOLEAN, activity \in Activities :
       LET row == Head(pending)
           fqn == Fqn(schema_i, row.name)
           date_col == get_date_column(described, row.columns)
           active == is_table_active(fqn, activity)
           raised == Truthy(date_col) /\ active.exc # None
           last == raised \/ Tail(pending) = << >>
       IN /\ visited' = visited \cup {fqn}
          /\ active_tables_info' =
               IF Truthy(date_col) /\ ~raised /\ active.ret
                 THEN Append(active_tables_info, [fqn |-> fqn, date_col |-> date_col])
                 ELSE active_tables_info
          /\ pending' = IF last THEN << >> ELSE Tail(pending)
          /\ scanning' = ~last
          /\ schema_i' = IF last THEN schema_i + 1 ELSE schema_i
  /\ UNCHANGED << pc, caller, conn, listed, generate_vars, rules, run_vars,
                  exception, results, results_file, exit_code, now_year,
                  synth_vars, warehouse >>

\* discover_active_tables, lines 164-166, and main, line 422: discovery
\* returns and generate_all_rules starts.
DiscoveryDone ==
  /\ pc = "discover" /\ schema_i > Len(TARGET_SCHEMAS)
  /\ pc' = "generate"
  /\ UNCHANGED << caller, conn, discovery_vars, generate_vars, rules, run_vars,
                  exception, results, results_file, exit_code, now_year,
                  synth_vars, warehouse >>

(* ---------------------------------------------------------------------- *)
(* generate_all_rules                                                     *)
(* ---------------------------------------------------------------------- *)

\* main passes check_yesterday_only = True (line 413).
MainCheckYesterdayOnly == TRUE

\* The model of every table is appended, with or without tests.
AppendRulesAlways(rules_so_far, columns, rules_for_model) ==
  Append(rules_so_far, rules_for_model)

\* generate_all_rules, lines 214-222: the model of a table is appended when
\* the table has columns and the model has tests.
AppendRules(rules_so_far, columns, rules_for_model) ==
  IF columns # << >> /\ rules_for_model.tests # << >>
    THEN Append(rules_so_far, rules_for_model)
    ELSE rules_so_far

\* generate_all_rules, lines 210-222: the loop body for the next active
\* table; an exception of get_table_columns leaves through main's finally.
GenerateRules ==
  /\ pc = "generate" /\ gen_i <= Len(active_tables_info)
  /\ \E described \in BOOLEAN :
       LET table_info == active_tables_info[gen_i]
           got == get_table_columns(table_info.fqn, described,
                                    CatalogColumns(table_info.fqn))
           rules_for_model ==
             generate_rules_for_table(table_info.fqn, got.ret, table_info.date_col,
                                      MainCheckYesterdayOnly, now_year)
       IN IF got.exc # None
            THEN /\ exception' = got.exc /\ pc' = "finally"
                 /\ UNCHANGED generate_vars
            ELSE /\ all_rules' = AppendRules(all_rules, got.ret, rules_for_model)
                 /\ gen_i' = gen_i + 1
                 /\ UNCHANGED << pc, exception >>
  /\ UNCHANGED << caller, conn, discovery_vars, rules, run_vars, results,
                  results_file, exit_code, now_year, synth_vars, warehouse >>

\* generate_all_rules, lines 223-224, and main, line 425: the rules are
\* handed to run_all_checks.
GenerateDone ==
  /\ pc = "generate" /\ gen_i > Len(active_tables_info)
  /\ rules' = all_rules
  /\ pc' = "run_entry"
  /\ UNCHANGED << caller, conn, discovery_vars, generate_vars, run_vars,
                  exception, results, results_file, exit_code, now_year,
                  synth_vars, warehouse >>

(* ---------------------------------------------------------------------- *)
(* run_all_checks                                                         *)
(* ---------------------------------------------------------------------- *)

\* Where control goes when run_all_checks returns, and when it raises.
AfterReturn == IF caller = "main" THEN "finally" ELSE "returned"
AfterRaise == IF caller = "main" THEN "finally" ELSE "raised"

\* run_all_checks, lines 332-342: the cursor is opened; without tests the
\* function returns [] at once.
RunEntry ==
  /\ pc = "run_entry"
  /\ cursor' = "open"
  /\ run_results' = << >>
  /\ test_counter' = 0
  /\ IF total_tests(rules) = 0
       THEN /\ results' = << >> /\ pc' = AfterReturn
       ELSE /\ pc' = "run_loop" /\ UNCHANGED results
  /\ UNCHANGED << caller, conn, discovery_vars, generate_vars, rules, submitted,
                  last_outcome, exception, results_file, exit_code, now_year,
                  synth_vars, warehouse >>

\* run_all_checks, lines 346-389: one pass of the loop body, for the next
\* test: compile, execute, classify, append.
RunTest ==
  /\ pc = "run_loop" /\ test_counter < total_tests(rules)
  /\ LET k == test_counter + 1
         entry == FlatTests(rules)[k]
         compiled == CompileTest(entry)
     IN /\ test_counter' = k
        /\ IF compiled.exc # None
             THEN /\ exception' = compiled.exc /\ pc' = AfterRaise
                  /\ last_outcome' = NoOutcome
                  /\ UNCHANGED << run_results, submitted >>
           ELSE IF ~Truthy(compiled.ret)
             THEN /\ run_results' = AppendResult(run_results,
                                                 ResultRecord(entry, "error", -1))
                  /\ last_outcome' = NoOutcome
                  /\ UNCHANGED << submitted, exception, pc >>
           ELSE \E o \in Answers(warehouse, compiled.ret, QUERY_TIMEOUT_SECONDS) :
                  /\ submitted' = SubmitStatement(submitted, k, compiled.ret)
                  /\ last_outcome' = o
                  /\ run_results' =
                       AppendResult(run_results,
                                    ResultRecord(entry, ClassifyOutcome(o).status,
                                                 ClassifyOutcome(o).failing_rows))
                  /\ UNCHANGED << exception, pc >>
  /\ UNCHANGED << caller, conn, discovery_vars, generate_vars, rules, cursor,
                  results, results_file, exit_code, now_year, synth_vars, warehouse >>

\* run_all_checks, lines 391-392: the loops are done, the cursor is closed
\* and the list returned.
RunReturn ==
  /\ pc = "run_loop" /\ test_counter = total_tests(rules)
  /\ cursor' = "closed"
  /\ results' = run_results
  /\ pc' = AfterReturn
  /\ UNCHANGED << caller, conn, discovery_vars, generate_vars, rules, test_counter,
                  run_results, submitted, last_outcome, exception, results_file,
                  exit_code, now_year, synth_vars, warehouse >>

(* ---------------------------------------------------------------------- *)
(* main after the run                                                     *)
(* ---------------------------------------------------------------------- *)

\* main, lines 426-430: the finally closes the connection; an exception
\* then leaves main and the interpreter exits with 1.
Finally ==
  /\ pc = "finally"
  /\ conn' = "closed"
  /\ IF exception # None
       THEN pc' = "exited" /\ exit_code' = 1
       ELSE pc' = "report" /\ UNCHANGED exit_code
  /\ UNCHANGED << caller, discovery_vars, generate_vars, rules, run_vars,
                  exception, results, results_file, now_year, synth_vars, warehouse >>

\* The records of the run are added to those the file already holds.
WriteResultsMerged(file, res) == file \o res

\* main, lines 433-442: open(RESULTS_FILE, 'w') and json.dump of the results,
\* of [] when there are none: what the file holds afterwards.
WriteResults(file, res) == IF res # << >> THEN res ELSE << >>

\* main, lines 433-464: the results (or an empty list) are written to the
\* results file and the exit code is decided.
Report ==
  /\ pc = "report"
  /\ results_file' = WriteResults(results_file, results)
  /\ exit_code' = ExitCode(results)
  /\ pc' = "exited"
  /\ UNCHANGED << caller, conn, discovery_vars, generate_vars, rules, run_vars,
                  exception, results, now_year, synth_vars, warehouse >>

(* ---------------------------------------------------------------------- *)
(* Direct calls of the pure functions                                     *)
(* ---------------------------------------------------------------------- *)

\* generate_rules_for_table(table_name, columns, primary_date_column,
\* check_yesterday_only) is called.
Synthesize ==
  /\ pc = "synth_input"
  /\ synth_tests' =
       generate_rules_for_table(synth_in.table_name, synth_in.columns,
                                synth_in.primary_date_column,
                                synth_in.check_yesterday_only, now_year).tests
  /\ pc' = "synth_done"
  /\ UNCHANGED << caller, conn, discovery_vars, generate_vars, rules, run_vars,
                  exception, results, results_file, exit_code, now_year, synth_in,
                  synth_sql, synth_again, warehouse >>

\* generate_rules_for_table is called a second time with the same
\* arguments, at once or after the year has changed.
SynthesizeAgain ==
  /\ pc = "synth_done"
  /\ \E y \in { x \in Years : x >= now_year } :
       /\ now_year' = y
       /\ synth_again' =
            [called |-> TRUE,
             tests |-> generate_rules_for_table(synth_in.table_name, synth_in.columns,
                                                synth_in.primary_date_column,
                                                synth_in.check_yesterday_only, y).tests]
  /\ pc' = "synth_twice"
  /\ UNCHANGED << caller, conn, discovery_vars, generate_vars, rules, run_vars,
                  exception, results, results_file, exit_code, synth_in, synth_tests,
                  synth_sql, warehouse >>

\* generate_test_sql is called for one of the tests, the caller supplying a
\* time_window_days or none.
Compile ==
  /\ pc = "synth_done"
  /\ \E i \in 1..Len(synth_tests), d \in WindowDayChoices :
       LET t == synth_tests[i]
           config == IF d.given THEN DictWith(t.config, "time_window_days", d.n)
                                ELSE t.config
       IN synth_sql' =
            [test |-> i, days |-> d, config |-> config,
             out |-> generate_test_sql(t.type, synth_in.table_name,
                                       t.column_name, config)]
  /\ pc' = "synth_compiled"
  /\ UNCHANGED << caller, conn, discovery_vars, generate_vars, rules, run_vars,
                  exception, results, results_file, exit_code, now_year, synth_in,
                  synth_tests, synth_again, warehouse >>

(* ---------------------------------------------------------------------- *)
(* Specifications                                                         *)
(* ---------------------------------------------------------------------- *)

RunNext == RunEntry \/ RunTest \/ RunReturn

Next ==
  \/ Connect \/ ShowTables \/ DiscoverTable \/ DiscoveryDone
  \/ GenerateRules \/ GenerateDone
  \/ RunEntry \/ RunTest \/ RunReturn
  \/ Finally \/ Report

SynthNext == Synthesize \/ SynthesizeAgain \/ Compile

\* One run of main.
Spec == Init /\ [][Next]_vars

\* run_all_checks on every rule list of RuleLists.
SpecRun == InitRun /\ [][RunNext]_vars

\* run_all_checks for one test against a warehouse whose table is known.
SpecExec == InitExec /\ [][RunNext]_vars

\* generate_rules_for_table and generate_test_sql on the inputs of InitSynth.
SpecSynth == InitSynth /\ [][SynthNext]_vars

(* ---------------------------------------------------------------------- *)
(* Claims                                                                 *)
(* ---------------------------------------------------------------------- *)

Last(seq) == seq[Len(seq)]

BadStatuses == {"fail", "error", "timeout"}

\* C1: every result run_all_checks records has a status among pass, fail,
\* error and timeout, with failing_rows -1 exactly for error and timeout; and
\* for a statement that was run, the status is pass exactly when it returned
\* within the timeout with scalar 0, and fail exactly when it returned with a
\* scalar above 0, which is then the failing_rows recorded.
C1_Classification ==
  /\ \A i \in 1..Len(run_results) :
       /\ run_results[i].status \in {"pass", "fail", "error", "timeout"}
       /\ (run_results[i].status \in {"error", "timeout"})
            <=> (run_results[i].failing_rows = -1)
  /\ (last_outcome.kind # "none") =>
       /\ run_results # << >>
       /\ LET r == Last(run_results)
              returned == last_outcome.kind = "row" /\ ~Exceeded(last_outcome)
          IN /\ (r.status = "pass") <=> (returned /\ last_outcome.scalar = 0)
             /\ (r.status = "fail") <=> (returned /\ last_outcome.scalar > 0)
             /\ (r.status = "fail") => (r.failing_rows = last_outcome.scalar)

\* C1 witness: a statement returned a positive count and was recorded as fail.
C1_Witness ==
  /\ last_outcome.kind = "row" /\ last_outcome.scalar > 0
  /\ run_results # << >> /\ Last(run_results).status = "fail"

\* C2: whenever execution of a statement went past the timeout, whatever the
\* exception raised for it, the test is recorded with status timeout and
\* failing_rows -1.
C2_TimeoutRecorded ==
  Exceeded(last_outcome) =>
    /\ run_results # << >>
    /\ Last(run_results).status = "timeout"
    /\ Last(run_results).failing_rows = -1

\* The result records of the first n tests of the rules, whatever their
\* status: n records, the i-th for the i-th test.
RecordsFollowTests(recs, flat, n) ==
  /\ Len(recs) >= n /\ Len(flat) >= n
  /\ \A i \in 1..n :
       /\ recs[i].model_name = flat[i].model_name
       /\ recs[i].column_name = TestGet(flat[i].test, "column_name", "N/A")
       /\ recs[i].test_type = TestGet(flat[i].test, "type", None)
       /\ recs[i].description
            = TestGet(flat[i].test, "description", "No description.")

\* C3: once run_all_checks is over, however single tests failed, every test
\* of every model of the rules has its own result record.
C3_FailuresIsolated ==
  (pc \in {"returned", "raised"}) =>
    /\ Len(run_results) = total_tests(rules)
    /\ RecordsFollowTests(run_results, FlatTests(rules), total_tests(rules))

\* C4: once discovery is over, every table SHOW TABLES listed has been
\* visited by the discovery loop, whatever happened to the tables before it;
\* and only tables found active contribute rules.
C4_TableFailureIsLocal ==
  /\ (pc \notin {"main", "discover"}) => (listed \subseteq visited)
  /\ \A m \in 1..Len(all_rules) :
       \E a \in 1..Len(active_tables_info) :
         active_tables_info[a].fqn = all_rules[m].name

\* C5: no retries: each test's statement is sent to the warehouse at most
\* once, there is at most one record per visited test, and a record, once
\* appended, keeps its place and its content.
C5_NoRetries ==
  /\ [](\A i, j \in 1..Len(submitted) :
          (submitted[i].test = submitted[j].test) => (i = j))
  /\ [](Len(run_results) <= test_counter /\ Len(submitted) <= test_counter)
  /\ [][\A i \in 1..Len(run_results) :
          i <= Len(run_results') /\ run_results'[i] = run_results[i]]_vars

\* C5 witness: a timeout was recorded and the run went on to later tests.
C5_Witness ==
  /\ Len(run_results) >= 2 /\ Len(submitted) >= 2
  /\ run_results[1].status = "timeout"

\* The position of a table in active_tables_info, 0 when it is not there.
ActiveIndex(fqn) ==
  IF \E a \in 1..Len(active_tables_info) : active_tables_info[a].fqn = fqn
    THEN CHOOSE a \in 1..Len(active_tables_info) : active_tables_info[a].fqn = fqn
    ELSE 0

\* C6: the rules are in discovery order, the i-th result record belongs to
\* the i-th synthesized test (tables in that order, each table's tests in
\* synthesis order), and a finished run has one record per synthesized test.
C6_ResultOrder ==
  /\ \A m, n \in 1..Len(all_rules) :
       /\ ActiveIndex(all_rules[m].name) > 0
       /\ (m < n) => (ActiveIndex(all_rules[m].name) < ActiveIndex(all_rules[n].name))
  /\ RecordsFollowTests(run_results, FlatTests(all_rules), Len(run_results))
  /\ (pc = "report" \/ (pc = "exited" /\ conn = "closed")) =>
       /\ Len(results) = total_tests(all_rules)
       /\ RecordsFollowTests(results, FlatTests(all_rules), total_tests(all_rules))

\* C6 witness: a finished run over two tables with three tests in all.
C6_Witness ==
  /\ pc = "exited" /\ Len(results) = 3 /\ Len(all_rules) = 2
  /\ results[1].model_name = "DWH.PUBLIC.USERS"
  /\ results[3].model_name = "DWH.PUBLIC.ORDERS"

IsCompileFailure(test) ==
  \/ /\ TestGet(test, "type", None) = "custom_sql"
     /\ "sql" \notin DOMAIN TestGet(test, "config", EmptyDict)
  \/ TestGet(test, "type", None) \notin {"not_null", "unique", "custom_sql"}

\* C8: every visited test that generate_test_sql has no statement for has
\* its result record, with status error and failing_rows -1, and nothing
\* was sent to the warehouse for it.
C8_CompileFailureIsError ==
  \A k \in 1..test_counter :
    IsCompileFailure(FlatTests(rules)[k].test) =>
      /\ Len(run_results) >= k
      /\ run_results[k].status = "error"
      /\ run_results[k].failing_rows = -1
      /\ \A i \in 1..Len(submitted) : submitted[i].test # k

\* The window predicates as the claim words them.
YesterdayText(c) ==
  "(\"" \o c \o "\" >= CURRENT_DATE - INTERVAL '1 DAY' AND \"" \o c
    \o "\" < CURRENT_DATE)"

TrailingText(c, n) ==
  "(\"" \o c \o "\" >= CURRENT_DATE - INTERVAL '" \o ToString(n) \o " DAY')"

HasWindow(sql) == Contains(sql, "CURRENT_DATE - INTERVAL")

\* C9: every synthesized test carries the window of the call (the primary
\* date column and the flag, nothing else); the compiled statement has no
\* window predicate without a primary date column, the previous-day
\* predicate with the column and the flag, the trailing-n-days predicate
\* with the column, no flag and a positive n supplied, and none when n is
\* absent; and [ID NUMBER, EMAIL VARCHAR] without a column and flag yields
\* ID not_null, ID unique, EMAIL not_null and the EMAIL format test.
C9_TimeWindow ==
  LET col == synth_in.primary_date_column
      flag == synth_in.check_yesterday_only
  IN /\ \A i \in 1..Len(synth_tests) :
          /\ synth_tests[i].config["date_window_col"] = col
          /\ synth_tests[i].config["check_yesterday_only"] = flag
          /\ DOMAIN synth_tests[i].config
               \subseteq {"date_window_col", "check_yesterday_only", "sql"}
     /\ (pc = "synth_compiled") =>
          /\ synth_sql.out.exc = None /\ synth_sql.out.ret # None
          /\ LET sql == synth_sql.out.ret
                 d == synth_sql.days
             IN /\ (col = None) => ~HasWindow(sql)
                /\ (col # None /\ flag) =>
                     /\ Contains(sql, " AND " \o YesterdayText(col))
                     /\ ~Contains(sql, "DAY')")
                /\ (col # None /\ ~flag /\ d.given /\ d.n > 0) =>
                     /\ Contains(sql, " AND " \o TrailingText(col, d.n))
                     /\ ~Contains(sql, "< CURRENT_DATE")
                /\ (col # None /\ ~flag /\ ~d.given) => ~HasWindow(sql)
     /\ (/\ pc # "synth_input"
         /\ synth_in.columns = << Col("ID", "NUMBER"), Col("EMAIL", "VARCHAR") >>
         /\ col = None /\ ~flag) =>
          /\ [i \in 1..Len(synth_tests) |->
                << synth_tests[i].type, synth_tests[i].column_name >>]
               = << << "not_null", "ID" >>, << "unique", "ID" >>,
                    << "not_null", "EMAIL" >>, << "custom_sql", "EMAIL" >> >>
          /\ Contains(synth_tests[4].config["sql"], "REGEXP_LIKE(\"EMAIL\"")

\* C9 witness: a statement compiled with the previous-day window.
C9_Witness ==
  /\ pc = "synth_compiled"
  /\ synth_in.primary_date_column = "updatedAt" /\ synth_in.check_yesterday_only
  /\ synth_tests[synth_sql.test].type = "unique"
  /\ HasWindow(synth_sql.out.ret)

\* The number of tests of a type that target a column.
CountTests(tests, type, column_name) ==
  Cardinality({ i \in 1..Len(tests) :
                  tests[i].type = type /\ tests[i].column_name = column_name })

\* C10: for every column whose uppercased name is ID, USER_ID, DATE_ID or
\* CAMPAIGN_ID, the synthesized tests hold exactly one not_null and exactly
\* one unique test targeting it.
C10_PrimaryKeyTests ==
  (pc # "synth_input") =>
    \A i \in 1..Len(synth_in.columns) :
      (Upper(synth_in.columns[i].name) \in {"ID", "USER_ID", "DATE_ID", "CAMPAIGN_ID"}) =>
        /\ CountTests(synth_tests, "not_null", synth_in.columns[i].name) = 1
        /\ CountTests(synth_tests, "unique", synth_in.columns[i].name) = 1

\* C10 witness: a table with two primary-key columns, one of a text type.
C10_Witness ==
  /\ pc = "synth_done"
  /\ \E i, j \in 1..Len(synth_in.columns) :
       /\ synth_in.columns[i].name = "USER_ID"
       /\ synth_in.columns[j].name = "CAMPAIGN_ID"
  /\ Len(synth_tests) = 4

\* The names of the table's columns whose uppercased name is key.
NamesMatching(columns, key) ==
  { columns[i].name : i \in { j \in 1..Len(columns) : Upper(columns[j].name) = key } }

\* The custom_sql tests whose fragment names a created and an updated column.
OrderingTests(tests, columns) ==
  { i \in 1..Len(tests) :
      /\ tests[i].type = "custom_sql"
      /\ \E c \in NamesMatching(columns, "CREATEDAT") :
           Contains(tests[i].config["sql"], Quoted(c))
      /\ \E u \in NamesMatching(columns, "UPDATEDAT") :
           Contains(tests[i].config["sql"], Quoted(u)) }

\* C11: for a table with a created and an updated timestamp column, exactly
\* one synthesized test compares the two, and under three-valued logic its
\* fragment is true for a row exactly when both values are set and created
\* is after updated.
C11_CreatedUpdatedOrdering ==
  (/\ pc = "synth_done"
   /\ NamesMatching(synth_in.columns, "CREATEDAT") # {}
   /\ NamesMatching(synth_in.columns, "UPDATEDAT") # {}) =>
    /\ Cardinality(OrderingTests(synth_tests, synth_in.columns)) = 1
    /\ \A i \in OrderingTests(synth_tests, synth_in.columns) :
         \E c \in NamesMatching(synth_in.columns, "CREATEDAT"),
            u \in NamesMatching(synth_in.columns, "UPDATEDAT") :
           \A cv, uv \in {NullV, NumV(1), NumV(2)} :
             (ConditionValue(synth_tests[i].config["sql"],
                             [x \in {c, u} |-> IF x = c THEN cv ELSE uv]) = "T")
               <=> (~cv.null /\ ~uv.null /\ cv.n > uv.n)

\* C11 witness: the tests of a table made of the two columns, the ordering
\* test last.
C11_Witness ==
  /\ pc = "synth_done"
  /\ synth_in.table_name = "DWH.PUBLIC.T"
  /\ synth_in.columns = << Col("updatedAt", "TIMESTAMP_NTZ(9)"),
                           Col("createdAt", "TIMESTAMP_NTZ(9)") >>
  /\ OrderingTests(synth_tests, synth_in.columns) = {5}

\* C12: a second call of generate_rules_for_table with the same arguments
\* returns the list the first returned, whenever it is made.
C12_Idempotent ==
  synth_again.called => (synth_again.tests = synth_tests)

\* The tests rejecting future values of a column.
FutureTests(tests, column_name) ==
  { i \in 1..Len(tests) :
      /\ tests[i].type = "custom_sql" /\ tests[i].column_name = column_name
      /\ Contains(tests[i].config["sql"], "> CURRENT_DATE()") }

StartsWith(s, k) == Len(s) >= Len(k) /\ SubSeq(s, 1, Len(k)) = k

\* What the descriptions of the rules say after the prefix, in the order the
\* rules stand in generate_rules_for_table: how the text starts and ends.
RulePhrases ==
  << << "Primary key '", "' should not be NULL." >>,
     << "Primary key '", "' should be unique." >>,
     << "Foreign key '", "' should not be NULL." >>,
     << "Timestamp column '", "' should not be NULL." >>,
     << "Timestamp '", "" >>,
     << "Email column '", "' should not be NULL." >>,
     << "Email column '", "' should have a valid format." >>,
     << "Country code '", "' should be 2-3 characters." >>,
     << "Country code '", "' should not be empty or whitespace." >>,
     << "Financial column '", "" >>,
     << "Campaign metric '", "" >>,
     << "Campaign duration '", "" >>,
     << "Boolean indicator '", "" >>,
     << "MONTH_ID should", "" >>,
     << "QUARTER_ID should", "" >>,
     << "WEEK_NUMBER should", "" >>,
     << "YEAR should", "" >>,
     << "UTM_KEY should not be empty", "" >>,
     << "UTM_KEY length", "" >>,
     << "Marketing field '", "" >>,
     << "Classification field '", "" >>,
     << "Game ID '", "" >>,
     << "NUMBER_OF_ACTIVE_SUBSCRIPTIONS should not", "" >>,
     << "NUMBER_OF_ACTIVE_SUBSCRIPTIONS exceeds", "" >>,
     << "Currency code should", "" >>,
     << "VARIANT field '", "" >>,
     << "DATE_ID must equal", "" >>,
     << "createdAt must be", "" >>,
     << "FIRST_IMPRESSION_DATE must not", "" >>,
     << "DATE must be between", "" >>,
     << "CLICKS cannot exceed", "" >>,
     << "If email is confirmed", "" >>,
     << "Active subscription indicator", "" >> >>

\* The place among the rules of the rule that wrote a test, 0 when no rule
\* writes such a description.
RuleRank(test, prefix) ==
  LET text == SubSeq(test.description, Len(prefix) + 3, Len(test.description))
      hits == { r \in 1..Len(RulePhrases) :
                  StartsWith(text, RulePhrases[r][1]) /\ EndsWith(text, RulePhrases[r][2]) }
  IN IF hits = {} THEN 0 ELSE CHOOSE r \in hits : \A q \in hits : r <= q

\* The columns of the table a test's fragment names.
ColumnsNamed(test, columns) ==
  { k \in 1..Len(columns) :
      Contains(DictGet(test.config, "sql"), Quoted(columns[k].name)) }

\* 1 for a test on one column, 2 for a cross-column test, 3 for a test
\* gated on the table name.
TestClass(test, columns) ==
  IF Contains(test.column_name, ",") THEN 3
  ELSE IF Cardinality(ColumnsNamed(test, columns)) >= 2 THEN 2
  ELSE 1

\* Where a test stands by the claimed order: its class, for a per-column test
\* the position of its column in the table, and the place of its rule.
OrderKey(test, columns, prefix) ==
  LET class == TestClass(test, columns)
  IN << class,
        IF class = 1
          THEN CHOOSE k \in 1..Len(columns) : columns[k].name = test.column_name
          ELSE 0,
        RuleRank(test, prefix) >>

KeyBefore(a, b) ==
  \/ a[1] < b[1]
  \/ a[1] = b[1] /\ a[2] < b[2]
  \/ a[1] = b[1] /\ a[2] = b[2] /\ a[3] < b[3]

\* C17: the tests of a table stand in insertion order: the per-column tests
\* first, column after column in the table's column order and within a
\* column in the order of the rules, then the cross-column tests in the
\* order of their rules, then the test gated on the table name.
C17_InsertionOrder ==
  (pc = "synth_done") =>
    LET prefix == description_prefix_base(synth_in.primary_date_column,
                                          synth_in.check_yesterday_only)
        key(i) == OrderKey(synth_tests[i], synth_in.columns, prefix)
    IN /\ \A i \in 1..Len(synth_tests) :
            /\ key(i)[3] # 0
            /\ (key(i)[1] = 1) <=> (key(i)[3] <= 26)
            /\ (key(i)[1] = 3) <=> (key(i)[3] >= 32)
       /\ \A i \in 1..(Len(synth_tests) - 1) : KeyBefore(key(i), key(i + 1))

\* C17 witness: a table with tests of all three classes, on more than one
\* column.
C17_Witness ==
  /\ pc = "synth_done"
  /\ synth_in.table_name = "DWH.PUBLIC.ACCOUNTS"
  /\ { TestClass(synth_tests[i], synth_in.columns) : i \in 1..Len(synth_tests) } = {1, 2, 3}
  /\ Cardinality({ synth_tests[i].column_name : i \in 1..Len(synth_tests) }) > 3

\* The undelimited words of an SQL text that name a column of the table
\* (an undelimited identifier is resolved in upper case).
UndelimitedColumns(sql, columns) ==
  LET ts == Tokens(sql)
  IN { ts[p].v : p \in { q \in 1..Len(ts) :
                           /\ ts[q].k = "w"
                           /\ \E c \in 1..Len(columns) :
                                Upper(columns[c].name) = Upper(ts[q].v) } }

\* The three-part name of a table, each part delimited.
DelimitedName(table_name) ==
  LET parts == SplitDots(table_name)
  IN Quoted(parts[1]) \o "." \o Quoted(parts[2]) \o "." \o Quoted(parts[3])

\* C19: in every statement compiled from a synthesized test each part of
\* the table name is a delimited identifier, and no column of the table is
\* named by an undelimited word.
C19_DelimitedIdentifiers ==
  (pc = "synth_compiled" /\ synth_sql.out.exc = None /\ synth_sql.out.ret # None) =>
    /\ Contains(synth_sql.out.ret, "FROM " \o DelimitedName(synth_in.table_name))
    /\ UndelimitedColumns(synth_sql.out.ret, synth_in.columns) = {}

RECURSIVE SplitCommasFrom(_, _, _)
SplitCommasFrom(s, i, cur) ==
  IF i > Len(s) THEN {cur}
  ELSE IF SubSeq(s, i, i) = "," THEN {cur} \cup SplitCommasFrom(s, i + 1, "")
  ELSE SplitCommasFrom(s, i + 1, cur \o SubSeq(s, i, i))

\* The columns a test lists as its targets: column_name, split at commas.
TargetColumns(test) == SplitCommasFrom(test.column_name, 1, "")

\* The columns of the table a fragment refers to: by a delimited identifier
\* (the exact name) or by an undelimited word (the name in upper case).
FragmentColumns(sql, columns) ==
  LET ts == Tokens(sql)
  IN { ts[p].v : p \in { q \in 1..Len(ts) : ts[q].k = "id" } }
     \cup { columns[c].name : c \in { d \in 1..Len(columns) :
              \E q \in 1..Len(ts) :
                ts[q].k = "w" /\ Upper(ts[q].v) = Upper(columns[d].name) } }

\* C20: every custom_sql test lists as targets only columns of the table, by
\* their actual names, and its fragment refers to listed columns only.
C20_FragmentWithinTargets ==
  (pc = "synth_done") =>
    \A i \in 1..Len(synth_tests) :
      (synth_tests[i].type = "custom_sql") =>
        /\ TargetColumns(synth_tests[i])
             \subseteq { synth_in.columns[k].name : k \in 1..Len(synth_in.columns) }
        /\ FragmentColumns(synth_tests[i].config["sql"], synth_in.columns)
             \subseteq TargetColumns(synth_tests[i])

\* The test of a run of one test, and the record the run made for it.
TestRun == rules[1].tests[1]

RecordMade == run_results[1]

HasRun(type) ==
  warehouse.known /\ Len(run_results) = 1 /\ TestRun.type = type

\* A row lies inside the time window of a test's config: yesterday's rows
\* under check_yesterday_only, the rows of the trailing time_window_days
\* days otherwise, every row without a window. A row without a value in the
\* window column is in no window.
InWindow(row, config) ==
  LET col == DictGet(config, "date_window_col")
  IN IF col = None THEN TRUE
     ELSE IF config["check_yesterday_only"]
       THEN ~row[col].null /\ row[col].n = Today - 1
     ELSE IF "time_window_days" \in DOMAIN config /\ config["time_window_days"] > 0
       THEN ~row[col].null /\ row[col].n >= Today - config["time_window_days"]
     ELSE TRUE

\* The rows of the warehouse's table inside the window of the test run.
WindowRows == { i \in 1..Len(warehouse.rows) : InWindow(warehouse.rows[i], TestRun.config) }

\* The values of a column that more than one row of the given rows holds.
DuplicatedValues(column, among) ==
  { v \in { warehouse.rows[i][column].n :
              i \in { j \in among : ~warehouse.rows[j][column].null } } :
      Cardinality({ i \in among : /\ ~warehouse.rows[i][column].null
                                  /\ warehouse.rows[i][column].n = v }) > 1 }

RecordIs(count) ==
  /\ RecordMade.failing_rows = count
  /\ RecordMade.status = IF count > 0 THEN "fail" ELSE "pass"

\* C13: the statement of a unique test counts the distinct non-NULL values
\* of the target column held by more than one row inside the time window;
\* rows with NULL in the target column count for nothing.
C13_UniqueCountsDuplicateGroups ==
  HasRun("unique") =>
    /\ last_outcome.kind = "row"
    /\ last_outcome.scalar = Cardinality(DuplicatedValues(TestRun.column_name, WindowRows))
    /\ RecordIs(Cardinality(DuplicatedValues(TestRun.column_name, WindowRows)))

\* C13 witness: two rows with NULL in the target column, inside the window,
\* and the unique test counted no duplicate.
C13_Witness ==
  /\ HasRun("unique")
  /\ TestRun.config["check_yesterday_only"]
  /\ Cardinality({ i \in WindowRows : warehouse.rows[i][TestRun.column_name].null }) = 2
  /\ RecordMade.failing_rows = 0

\* C13 witness of a counted group: the same value twice inside the window.
C13_WitnessDuplicate ==
  /\ HasRun("unique")
  /\ Cardinality(WindowRows) = 2 /\ RecordMade.failing_rows = 1

\* The rows among the given ones with NULL in a column.
NullRows(column, among) == { i \in among : warehouse.rows[i][column].null }

\* C14 as stated: the not_null statement counts the rows of the table with
\* NULL in the target column, fail when there are any and pass otherwise;
\* one NULL row among five gives fail with count 1.
C14_NotNullCountsNullRows ==
  HasRun("not_null") =>
    RecordIs(Cardinality(NullRows(TestRun.column_name, 1..Len(warehouse.rows))))

\* C14 amended: the not_null statement counts the rows inside the test's
\* time window with NULL in the target column (all rows of the table when
\* the test has no window), fail when there are any and pass otherwise.
C14_NotNullCountsNullRowsInWindow ==
  HasRun("not_null") =>
    /\ last_outcome.kind = "row"
    /\ RecordIs(Cardinality(NullRows(TestRun.column_name, WindowRows)))

\* C14 witness: one NULL among five rows, all inside the window: fail with
\* count 1.
C14_Witness ==
  /\ HasRun("not_null") /\ TestRun.column_name = "ID"
  /\ Len(warehouse.rows) = 5 /\ Cardinality(WindowRows) = 5
  /\ Cardinality(NullRows("ID", WindowRows)) = 1
  /\ RecordMade.status = "fail" /\ RecordMade.failing_rows = 1

\* The violation predicate of a test: the NULL test of the target column,
\* for unique the filter on it, for custom_sql the supplied fragment.
ViolationText(test) ==
  IF test.type = "not_null" THEN Quoted(test.column_name) \o " IS NULL"
  ELSE IF test.type = "unique" THEN Quoted(test.column_name) \o " IS NOT NULL"
  ELSE test.config["sql"]

\* The WHERE clause the claim describes: the violation predicate in
\* parentheses and, under a window, AND and the window in parentheses.
ComposedWhere(test) ==
  LET window == time_window_filter_content(test.config)
  IN " WHERE (" \o ViolationText(test) \o ")"
       \o (IF window = "" THEN "" ELSE " AND (" \o window \o ")")

\* s is before \o k \o after for some texts, after beginning with next.
FollowedBy(s, k, next) ==
  \E i \in 1..(Len(s) - Len(k) + 1) :
    /\ SubSeq(s, i, i + Len(k) - 1) = k
    /\ SubSeq(s, i + Len(k), i + Len(k) + Len(next) - 1) = next

\* The rows inside the window of the test run for which its fragment is
\* true.
FragmentRows ==
  { i \in WindowRows : ConditionValue(TestRun.config["sql"], warehouse.rows[i]) = "T" }

\* C16: the statement's WHERE clause is the parenthesized violation
\* predicate and, under a window, AND and the parenthesized window
\* predicate; for unique it stands inside the sub-query before GROUP BY and
\* the count is of the duplicates among the rows inside the window; a
\* custom_sql fragment stands verbatim, and the count is of the rows inside
\* the window for which the fragment is true, also when the fragment is an
\* OR.
C16_WindowComposition ==
  (warehouse.known /\ Len(run_results) = 1) =>
    LET sql == submitted[1].sql
    IN /\ Len(submitted) = 1
       /\ IF TestRun.type = "unique"
            THEN /\ FollowedBy(sql, ComposedWhere(TestRun), "\n            GROUP BY ")
                 /\ RecordMade.failing_rows
                      = Cardinality(DuplicatedValues(TestRun.column_name, WindowRows))
            ELSE EndsWith(sql, DelimitedName(rules[1].name) \o ComposedWhere(TestRun))
       /\ (TestRun.type = "custom_sql") =>
            RecordMade.failing_rows = Cardinality(FragmentRows)

\* C16 witness: a fragment that is an OR, true for a row outside the window
\* only: nothing is counted.
C16_Witness ==
  /\ HasRun("custom_sql")
  /\ Contains(TestRun.config["sql"], " OR ")
  /\ time_window_filter_content(TestRun.config) # ""
  /\ \E i \in 1..Len(warehouse.rows) :
       /\ i \notin WindowRows
       /\ ConditionValue(TestRun.config["sql"], warehouse.rows[i]) = "T"
  /\ RecordMade.failing_rows = 0

\* The tables whose models are in a rule list.
ModelNames(rule_list) == { rule_list[i].name : i \in 1..Len(rule_list) }

\* The tables the records of a result list are about.
RecordNames(records) == { records[i].model_name : i \in 1..Len(records) }

\* The active tables generate_all_rules has dealt with whose columns match
\* no convention.
UnmatchedTables ==
  { active_tables_info[j].fqn :
      j \in { k \in 1..Len(active_tables_info) :
                /\ k < gen_i
                /\ generate_rules_for_table(active_tables_info[k].fqn,
                                            CatalogColumns(active_tables_info[k].fqn),
                                            active_tables_info[k].date_col,
                                            MainCheckYesterdayOnly, now_year).tests = << >> } }

\* C18: a table without tests (no column, a failed describe, no matching
\* convention) is dropped: the rules hold no model without tests, a table
\* outside the rules has no result record, in the run or in the results
\* file it writes, and a run in which every table was dropped ends with an
\* empty result list and exit code 0.
C18_EmptyTablesDropped ==
  (caller = "main") =>
    /\ \A i \in 1..Len(all_rules) : all_rules[i].tests # << >>
    /\ UnmatchedTables \cap ModelNames(all_rules) = {}
    /\ RecordNames(run_results) \cup RecordNames(results) \subseteq ModelNames(all_rules)
    /\ (pc = "exited" /\ conn = "closed" /\ exception = None) =>
         /\ RecordNames(results_file) \subseteq ModelNames(all_rules)
         /\ (all_rules = << >>) =>
              results = << >> /\ results_file = << >> /\ exit_code = 0

\* C18 witness: tables were active, one of them matching no convention,
\* none of them is in the rules, and the run ended with no result.
C18_Witness ==
  /\ caller = "main" /\ pc = "exited" /\ exception = None
  /\ Len(active_tables_info) > 1 /\ UnmatchedTables # {}
  /\ all_rules = << >> /\ results = << >> /\ results_file = << >> /\ exit_code = 0

\* The tests whose fragment holds the given text.
TestsWithFragment(tests, text) ==
  { i \in 1..Len(tests) :
      tests[i].type = "custom_sql" /\ Contains(tests[i].config["sql"], text) }

\* C21: a table whose name holds ACCOUNTS and that has the columns
\* ISCONFIRMEDEMAIL and EMAIL gets the confirmed-email test, and a table
\* whose name holds DIM_USERS and that has the columns IS_ACTIVE_SUB_IND and
\* NUMBER_OF_ACTIVE_SUBSCRIPTIONS gets the active-subscription test, also
\* when the name holds both markers.
C21_GatedRulesAdded ==
  (pc = "synth_done") =>
    /\ (/\ Contains(Upper(synth_in.table_name), "ACCOUNTS")
        /\ HasColumn(synth_in.columns, "ISCONFIRMEDEMAIL")
        /\ HasColumn(synth_in.columns, "EMAIL")) =>
         TestsWithFragment(synth_tests, "ISCONFIRMEDEMAIL = TRUE") # {}
    /\ (/\ Contains(Upper(synth_in.table_name), "DIM_USERS")
        /\ HasColumn(synth_in.columns, "IS_ACTIVE_SUB_IND")
        /\ HasColumn(synth_in.columns, "NUMBER_OF_ACTIVE_SUBSCRIPTIONS")) =>
         TestsWithFragment(synth_tests, "IS_ACTIVE_SUB_IND = 1") # {}

\* main has ended after it obtained a connection.
RunEnded == caller = "main" /\ pc = "exited" /\ conn = "closed"

\* C22: after a run of main that obtained a connection the results file
\* holds exactly the result records of that run, the empty list when no
\* test ran, and no record of an earlier run.
C22_FreshResultSet ==
  RunEnded =>
    /\ results_file = run_results
    /\ results_file = results
    /\ Len(results_file) = test_counter
    /\ \A i \in 1..Len(results_file) : \A j \in 1..Len(PriorFile) :
         results_file[i] # PriorFile[j]

\* C22 witness: a run that made records has ended, and the file holds them
\* in place of the earlier run's record.
C22_Witness ==
  /\ RunEnded /\ Len(run_results) > 1
  /\ results_file = run_results /\ results_file # PriorFile

\* C22 witness of a run without tests: the file holds the empty list.
C22_WitnessEmpty ==
  RunEnded /\ test_counter = 0 /\ results_file = << >>

\* The statement submitted for the test run counts something for some
\* one-row table among those the warehouse can hold.
CanCount ==
  \E r \in ExecRows :
    LET answer == ExecuteStatement(submitted[1].sql, ExecTable(<< r >>))
    IN answer.kind = "row" /\ answer.scalar > 0

\* C23: every not_null test synthesized for a table, the one on the primary
\* time column under a time window included, has table contents for which
\* its compiled statement returns a count greater than 0.
C23_NotNullNeverVacuous ==
  (HasRun("not_null") /\ Len(submitted) = 1) => CanCount

\* A not_null test on the window column itself, under a window, has run and
\* no content makes its statement count a row.
C23_VacuousOnWindowColumn ==
  /\ HasRun("not_null") /\ Len(submitted) = 1
  /\ TestRun.column_name = DictGet(TestRun.config, "date_window_col")
  /\ ~CanCount

\* The test run is the future-date check of a column.
FutureCheckRun ==
  /\ HasRun("custom_sql") /\ Len(submitted) = 1
  /\ TestRun.config["sql"]
       = Quoted(TestRun.column_name) \o " > CURRENT_DATE() AND "
           \o Quoted(TestRun.column_name) \o " IS NOT NULL"

\* The statement submitted counts the row of some one-row table whose value
\* in the column of the test run lies after the current date.
CountsFutureRow ==
  \E r \in ExecRows :
    /\ ~r[TestRun.column_name].null /\ r[TestRun.column_name].n > Today
    /\ LET answer == ExecuteStatement(submitted[1].sql, ExecTable(<< r >>))
       IN answer.kind = "row" /\ answer.scalar > 0

\* C24: the future-date check of every timestamp-like column, the primary
\* time column under the previous-calendar-day window included, has a row
\* with a value after the current date for which the compiled statement
\* returns a count greater than 0.
C24_FutureCheckNeverVacuous ==
  FutureCheckRun => CountsFutureRow

\* C25: a status of timeout is recorded only for a statement whose
\* execution went past the timeout; an exception raised within the timeout,
\* whatever its message, is recorded as error.
C25_TimeoutOnlyWhenExceeded ==
  (run_results # << >> /\ last_outcome.kind = "raise") =>
    /\ (Last(run_results).status = "timeout") => Exceeded(last_outcome)
    /\ ~Exceeded(last_outcome) => Last(run_results).status = "error"

\* A statement failed within the timeout with a message holding the text
\* 'timed out', and the test was recorded as timeout.
C25_TimeoutWithoutExceeding ==
  /\ run_results # << >> /\ last_outcome.kind = "raise"
  /\ ~Exceeded(last_outcome) /\ last_outcome.exc.errno # TimeoutErrno
  /\ Last(run_results).status = "timeout"

\* The test generate_test_sql was called for, and the statement it returned.
CompiledTest == synth_tests[synth_sql.test]

CompiledSql == synth_sql.out.ret

\* C26: a description with the prefix '(on <column> for yesterday only)'
\* belongs to a test whose compiled statement holds the previous-day
\* predicate on that column, one with '(on <column> for recent data)' to a
\* statement holding a trailing-days predicate on that column, and one with
\* neither to a statement without a window predicate.
C26_DescriptionMatchesWindow ==
  (pc = "synth_compiled" /\ synth_sql.out.ret # None) =>
    LET desc == CompiledTest.description
        col == synth_in.primary_date_column
    IN /\ (col # None /\ Contains(desc, "(on " \o Fmt(col) \o " for yesterday only)")) =>
            Contains(CompiledSql, YesterdayText(col))
       /\ (col # None /\ Contains(desc, "(on " \o Fmt(col) \o " for recent data)")) =>
            \E n \in 1..(MaxWindowDays + 1) : Contains(CompiledSql, TrailingText(col, n))
       /\ (~Contains(desc, " for yesterday only)") /\ ~Contains(desc, " for recent data)")) =>
            ~HasWindow(CompiledSql)

\* A test described as '(on <column> for recent data)' was compiled from
\* its config as synthesized, and the statement has no window predicate.
C26_RecentDataWithoutWindow ==
  /\ pc = "synth_compiled" /\ synth_sql.out.ret # None /\ ~synth_sql.days.given
  /\ Contains(CompiledTest.description, " for recent data)")
  /\ ~HasWindow(CompiledSql)

\* Database and schema parts of tables with the same table part.
SiblingSchemas == {"DWH.PUBLIC", "DWH.DIM_DATES_MART", "ACCOUNTS_DB.RAW"}

\* The tests generate_rules_for_table makes for the table of the same table
\* part and columns in another database and schema.
SiblingTests(schema) ==
  generate_rules_for_table(schema \o "." \o SplitDots(synth_in.table_name)[3],
                           synth_in.columns, synth_in.primary_date_column,
                           synth_in.check_yesterday_only, now_year).tests

\* C27: the table-name tests of the synthesizer depend on the table part of
\* the qualified name only: tables with the same table part and the same
\* columns in different databases or schemas receive the same tests.
C27_TablePartOnly ==
  (pc = "synth_done" /\ Len(SplitDots(synth_in.table_name)) = 3) =>
    \A schema \in SiblingSchemas : SiblingTests(schema) = synth_tests

\* A table of schema DIM_DATES_MART got no future-date test for its
\* timestamp column, its sibling in PUBLIC gets one.
C27_SchemaPartDecides ==
  /\ pc = "synth_done" /\ synth_in.table_name = "DWH.DIM_DATES_MART.EVENTS"
  /\ FutureTests(synth_tests, "updatedAt") = {}
  /\ FutureTests(SiblingTests("DWH.PUBLIC"), "updatedAt") # {}

\* Pairs of tests of the same type, target column and violation predicate.
TwinTests(tests) ==
  { p \in (1..Len(tests)) \X (1..Len(tests)) :
      /\ p[1] < p[2]
      /\ tests[p[1]].type = tests[p[2]].type
      /\ tests[p[1]].column_name = tests[p[2]].column_name
      /\ ViolationText(tests[p[1]]) = ViolationText(tests[p[2]]) }

\* No column is listed twice.
DistinctColumns(columns) ==
  \A i, j \in 1..Len(columns) : columns[i].name = columns[j].name => i = j

\* C28: generate_rules_for_table never makes two tests of the same type,
\* target column and violation predicate for a table, whatever the names
\* and declared types of its columns.
C28_NoTwinTests ==
  (pc = "synth_done" /\ DistinctColumns(synth_in.columns)) => TwinTests(synth_tests) = {}

\* A numeric column named after a financial and a campaign keyword got the
\* same non-negative test twice.
C28_TwinNonNegative ==
  /\ pc = "synth_done" /\ HasColumn(synth_in.columns, "SPEND_PER_CLICKS")
  /\ \E p \in TwinTests(synth_tests) :
       synth_tests[p[1]].config["sql"]
         = "\"SPEND_PER_CLICKS\" < 0 AND \"SPEND_PER_CLICKS\" IS NOT NULL"

\* The declared type of a column of a table of the catalog contains DATE or
\* TIMESTAMP.
DateTyped(fqn, column_name) ==
  \E k \in 1..Len(CatalogColumns(fqn)) :
    /\ CatalogColumns(fqn)[k].name = column_name
    /\ \/ Contains(Upper(CatalogColumns(fqn)[k].type), "DATE")
       \/ Contains(Upper(CatalogColumns(fqn)[k].type), "TIMESTAMP")

\* C29: get_date_column returns no column or the name of a column of the
\* described table whose own declared type contains DATE or TIMESTAMP, also
\* when two columns differ in letter case only; hence the window column of
\* every test is a date-typed column.
C29_DateColumnIsDateTyped ==
  /\ \A i \in 1..Len(active_tables_info) :
       DateTyped(active_tables_info[i].fqn, active_tables_info[i].date_col)
  /\ \A m \in 1..Len(all_rules) : \A t \in 1..Len(all_rules[m].tests) :
       all_rules[m].tests[t].config["date_window_col"] # None =>
         DateTyped(all_rules[m].name, all_rules[m].tests[t].config["date_window_col"])

\* The table with registered_at VARCHAR and REGISTERED_AT TIMESTAMP_NTZ was
\* found active with the VARCHAR column as its date column.
C29_TextColumnChosen ==
  \E i \in 1..Len(active_tables_info) :
    /\ active_tables_info[i].fqn = "DWH.STAGE.AUDIT"
    /\ active_tables_info[i].date_col = "registered_at"

\* C30: the cursor run_all_checks opened is closed once run_all_checks has
\* returned, also when there were no tests, and the connection main
\* obtained is closed however the run ended.
C30_ResourcesReleased ==
  /\ (pc \in {"finally", "report", "exited", "returned", "raised"}) => cursor # "open"
  /\ (pc = "exited") => conn # "open"

\* run_all_checks has returned without tests, main has closed the
\* connection and ended, and the cursor was never closed.
C30_CursorLeftOpen ==
  /\ pc = "exited" /\ conn = "closed" /\ total_tests(rules) = 0
  /\ cursor = "open"

====
